---- MODULE Spec2Model ----
(***************************************************************************)
(* Patrol detection and identity matching of human_monitor_system.         *)
(*                                                                         *)
(* FaceMonitor (face_monitor.py): roster load, _recognize_face,            *)
(* _can_record_patrol, _record_patrol and the per-frame loop that feeds    *)
(* matched guards into _record_patrol.                                     *)
(* PatrolDetector (patrol_detector.py): detect_frame, _identify_guard,     *)
(* _get_face_center, _is_in_patrol_point, writing through                  *)
(* PatrolPointManager.add_patrol_record.                                   *)
(* FaceMonitor.start_video_file_monitor: open, the read / recognize /      *)
(* record loop, pause, seek, quit and the except / finally exit.           *)
(* VideoProcessor.get_frame and PatrolDetectionTester._read_frames: the    *)
(* looping sources.  FaceScreenshotExtractor._process_frame: inference     *)
(* under face_recognition_lock, next to threads in _recognize_face.        *)
(* FACE_RECOGNITION_CONFIG: the confidence and the distance threshold.     *)
(* FaceMonitor._load_guard_faces row by row.  PatrolPointManager.add_point *)
(* and its radius band.  FaceScreenshotExtractor.process_video.  The       *)
(* reader, processor and display loop of PatrolDetectionTester.run.  One   *)
(* frame sequence run through both modes of start_video_file_monitor.      *)
(*                                                                         *)
(* Time is an integer clock (datetime.now() / SQL NOW()); one tick is one  *)
(* unit of the cooldown setting.  Face distances and similarities are in   *)
(* tenths (distance 6 is 0.6, similarity 10 - distance).                   *)
(***************************************************************************)
EXTENDS Integers, Sequences, FiniteSets, TLC

VARIABLES
    now,                    \* the wall clock read by datetime.now() and NOW()
    patrol_records,         \* table patrol_records: rows in insertion order
    known_guard_keys,       \* list(FaceMonitor.known_guard_info.keys())
    known_face_encodings,   \* FaceMonitor.known_face_encodings (guard row ids)
    last_recognition_time,  \* FaceMonitor.last_recognition_time
    pc,                     \* per worker: position inside the frame loop / _record_patrol
    guard_id,               \* per worker: argument of the running _record_patrol
    can_now,                \* per worker: `now` read by _can_record_patrol
    stamp,                  \* per worker: `now` read by _record_patrol for the insert
    matched_faces,          \* frame loop: matched faces still to be recorded
    recognized,             \* frame loop: the faces of the last frame and their results
    lastCall,               \* the last completed _record_patrol call (history)
    guards_table,           \* table guards, active rows, in the order a SELECT returns them
    patrol_points,          \* PatrolDetector.patrol_points
    det_pc,                 \* position inside PatrolDetector.detect_frame
    faces,                  \* detect_frame: faces still to be handled
    face,                   \* detect_frame: the face being handled
    guard,                  \* detect_frame: the guard identified for it
    face_center,            \* detect_frame: its centre
    point_idx,              \* detect_frame: index of the next patrol point to test
    results,                \* detect_frame: the result list being built
    calls,                  \* add_patrol_record calls made for this frame (history)
    expected,               \* zones containing the matched faces of this frame (history)
    returned,               \* what the last detect_frame returned
    frames_done,            \* number of detect_frame calls so far
    geo_position,           \* argument of _is_in_patrol_point
    geo_point,              \* argument of _is_in_patrol_point
    geo_result,             \* its result
    video,                  \* the source behind cv2.VideoCapture(video_path)
    run_pc,                 \* position inside start_video_file_monitor
    cap,                    \* start_video_file_monitor: the capture handle
    pos_frames,             \* CAP_PROP_POS_FRAMES of the handle
    total_frames,           \* start_video_file_monitor: local total_frames
    fps,                    \* start_video_file_monitor: local fps
    enable_gui,             \* start_video_file_monitor: local enable_gui
    window,                 \* the 'Face Monitor' window exists
    frame_count,            \* start_video_file_monitor: local frame_count
    is_paused,              \* start_video_file_monitor: local is_paused
    last_frame,             \* start_video_file_monitor: last_frame (a frame index)
    next_log_frame,         \* start_video_file_monitor: local next_log_frame
    shown,                  \* what the last cv2.imshow displayed (frame index)
    reads,                  \* the frames cap.read() delivered so far (history)
    raised,                 \* the exception start_video_file_monitor raised
    source_frames,          \* number of frames of the looping test video
    vp_pos,                 \* VideoProcessor: CAP_PROP_POS_FRAMES of the capture
    vp_returned,            \* VideoProcessor.get_frame: the frame last returned
    vp_wrapped,             \* get_frame: its first read of the last call failed
    vp_calls,               \* number of get_frame calls so far
    is_running,             \* PatrolDetectionTester.is_running
    rd_pc,                  \* position of the _read_frames thread
    rd_pos,                 \* tester: CAP_PROP_POS_FRAMES of its capture
    rd_last,                \* _read_frames: the frame cap.read() returned last
    rd_failed,              \* _read_frames: the last cap.read() failed
    rd_reads,               \* _read_frames: number of cap.read() calls so far
    frame_queue,            \* PatrolDetectionTester.frame_queue
    face_recognition_lock,  \* face_video_extractor.face_recognition_lock: holder
    th_pc,                  \* per thread: position in _process_frame / _recognize_face
    th_exit,                \* per thread: how its last call ended (history)
    thr_probe,              \* a probe: its face_distance to each roster row, in tenths
    thr_confident,          \* the probe under similarity >= min_confidence
    thr_close,              \* the probe under distance <= max_face_distance
    rs_rows,                \* _load_guard_faces: the rows returned by the query
    rs_next,                \* _load_guard_faces: index of the next row of the loop
    rs_lookup,              \* _recognize_face: the last index lookup (history)
    pp_config,              \* PATROL_POINT_CONFIG: min_radius, max_radius, default_radius
    pp_table,               \* the patrol_points table: radius of row point_id
    pp_points,              \* PatrolPointManager.points: point_id -> radius
    pp_last,                \* add_point: argument and result of the last call (history)
    ex_video,               \* process_video: the file behind video_path, show_process
    ex_pc,                  \* process_video: position
    ex_total_frames,        \* process_video: total_frames
    ex_fps,                 \* process_video: fps
    ex_frame_count,         \* process_video: frame_count
    last_screenshot_time,   \* FaceScreenshotExtractor.last_screenshot_time
    screenshot_paths,       \* process_video: the screenshots saved, by video time
    ex_examined,            \* video times of the frames given to _process_frame (history)
    result_queue,           \* PatrolDetectionTester.result_queue
    pr_pc,                  \* _process_frames: position
    pr_frame,               \* _process_frames: frame
    main_pc,                \* run: position of the display loop
    ts_raced,               \* the queue was drained under a display loop about to get (history)
    rp_frames,              \* the frame sequence replayed through both profiles
    rp_count,               \* per profile: frame_count of its run
    rp_last,                \* per profile: last_recognition_time of its FaceMonitor
    rp_events,              \* per profile: records written, by guard and frame of origin
    rp_at                   \* per profile: the time each frame was processed (history)

fmVars == <<known_guard_keys, known_face_encodings, last_recognition_time, pc,
            guard_id, can_now, stamp, matched_faces, recognized, lastCall>>

detVars == <<guards_table, patrol_points, det_pc, faces, face, guard,
             face_center, point_idx, results, calls, expected, returned,
             frames_done>>

geoVars == <<geo_position, geo_point, geo_result>>

runVars == <<video, run_pc, cap, pos_frames, total_frames, fps, enable_gui,
             window, frame_count, is_paused, last_frame, next_log_frame, shown,
             reads, raised>>

loopVars == <<source_frames, vp_pos, vp_returned, vp_wrapped, vp_calls,
              is_running, rd_pc, rd_pos, rd_last, rd_failed, rd_reads,
              frame_queue>>

lockVars == <<face_recognition_lock, th_pc, th_exit>>

thrVars == <<thr_probe, thr_confident, thr_close>>

rsVars == <<rs_rows, rs_next, rs_lookup>>

ppVars == <<pp_config, pp_table, pp_points, pp_last>>

exVars == <<ex_video, ex_pc, ex_total_frames, ex_fps, ex_frame_count,
            last_screenshot_time, screenshot_paths, ex_examined>>

tsVars == <<result_queue, pr_pc, pr_frame, main_pc, ts_raced>>

rpVars == <<rp_frames, rp_count, rp_last, rp_events, rp_at>>

extVars == <<thrVars, rsVars, ppVars, exVars, tsVars, rpVars>>

pipeVars == <<runVars, loopVars, lockVars, extVars>>

vars == <<now, patrol_records, fmVars, detVars, geoVars, pipeVars>>

------------------------------------------------------------------------------
(* Bounds of the model *)

MaxTime == 6
MaxFaces == 1
RecognitionCooldown == 3

(* face_match_tolerance, in tenths *)
FaceMatchTolerance == 6

Guards == {"G1", "G2"}
UnknownGuard == "GX"
AllIds == Guards \cup {UnknownGuard}
Workers == {"w1", "w2"}
Caller == "w1"
Dists == {3, 6, 7}

None == -1
NoGuard == "none"
NoPoint == 0
NoFace == [top |-> 0, right |-> 0, bottom |-> 0, left |-> 0, probe |-> <<>>]
NoZone == [point_id |-> NoPoint, coord_x |-> 0, coord_y |-> 0, radius |-> 0]
NotReturned == "not returned"

------------------------------------------------------------------------------
(* Roster: FaceMonitor._load_guard_faces *)

RECURSIVE KeysOf(_)
KeysOf(rows) ==
    IF rows = <<>> THEN <<>>
    ELSE LET front == KeysOf(SubSeq(rows, 1, Len(rows) - 1))
             k == rows[Len(rows)]
         IN IF \E i \in 1..Len(front) : front[i] = k THEN front
            ELSE Append(front, k)

RosterRows ==
    {<<>>} \cup {<<g, h>> : <<g, h>> \in {p \in Guards \X Guards : p[1] # p[2]}}

Probes(n) == [1..n -> Dists]

------------------------------------------------------------------------------
(* FaceMonitor._recognize_face, one face *)

compare_faces_Loose(probe, tolerance) ==
    [i \in DOMAIN probe |-> probe[i] <= tolerance + 1]

(* face_recognition.compare_faces: face_distance(...) <= tolerance *)
compare_faces(probe, tolerance) ==
    [i \in DOMAIN probe |-> probe[i] <= tolerance]

FirstTrue(matches) ==
    CHOOSE i \in DOMAIN matches :
        matches[i] /\ \A j \in DOMAIN matches : matches[j] => i <= j

RecognizeOne(probe, keys) ==
    LET matches == compare_faces(probe, FaceMatchTolerance)
    IN IF \E i \in DOMAIN matches : matches[i]
       THEN keys[FirstTrue(matches)]
       ELSE NoGuard

RecognizeFace(frame, keys) ==
    [i \in 1..Len(frame) |-> [probe |-> frame[i], guard |-> RecognizeOne(frame[i], keys)]]

MatchedOf(rec) ==
    LET Matched(r) == r.guard # NoGuard
        sel == SelectSeq(rec, Matched)
    IN [i \in 1..Len(sel) |-> sel[i].guard]

------------------------------------------------------------------------------
(* FaceMonitor._can_record_patrol *)

_can_record_patrol_Short(g, t, last) ==
    IF last[g] # None
    THEN IF t - last[g] < RecognitionCooldown - 1 THEN FALSE ELSE TRUE
    ELSE TRUE

_can_record_patrol_Inclusive(g, t, last) ==
    IF last[g] # None
    THEN IF t - last[g] <= RecognitionCooldown THEN FALSE ELSE TRUE
    ELSE TRUE

_can_record_patrol(g, t, last) ==
    IF last[g] # None
    THEN IF t - last[g] < RecognitionCooldown THEN FALSE ELSE TRUE
    ELSE TRUE

(* INSERT INTO patrol_records: the table is a bag of rows; a row's n is its *)
(* rank among the rows of equal content                                    *)
Insert(table, g, p, t) ==
    table \cup {[guard_id |-> g, point_id |-> p, arrival_time |-> t,
                 n |-> 1 + Cardinality({r \in table : /\ r.guard_id = g
                                                       /\ r.point_id = p
                                                       /\ r.arrival_time = t})]}

NoCall == [guard |-> NoGuard, check |-> None, prev |-> None, outcome |-> "none"]

Done(g, chk, prv, out) ==
    lastCall' = [guard |-> g, check |-> chk, prev |-> prv, outcome |-> out]

------------------------------------------------------------------------------
(* The clock *)

Tick ==
    /\ now < MaxTime
    /\ now' = now + 1
    /\ UNCHANGED <<patrol_records, fmVars, detVars, geoVars, pipeVars>>

------------------------------------------------------------------------------
(* FaceMonitor: the frame loop and _record_patrol *)

(* FaceMonitor.__init__, lines 26-29, before the roster is loaded *)
FMLocalsIdle ==
    /\ now = 0
    /\ patrol_records = {}
    /\ last_recognition_time = [g \in AllIds |-> None]
    /\ pc = [w \in Workers |-> "idle"]
    /\ guard_id = [w \in Workers |-> NoGuard]
    /\ can_now = [w \in Workers |-> None]
    /\ stamp = [w \in Workers |-> None]
    /\ matched_faces = <<>>
    /\ recognized = <<>>
    /\ lastCall = NoCall

FMInit ==
    /\ \E rows \in RosterRows :
          /\ known_guard_keys = KeysOf(rows)
          /\ known_face_encodings = rows
    /\ FMLocalsIdle

DetLocalsIdle ==
    /\ det_pc = "idle"
    /\ faces = <<>>
    /\ face = NoFace
    /\ guard = NoGuard
    /\ face_center = <<0, 0>>
    /\ point_idx = 0
    /\ results = <<>>
    /\ calls = <<>>
    /\ expected = <<>>
    /\ returned = NotReturned
    /\ frames_done = 0

DetIdle ==
    /\ guards_table = <<>>
    /\ patrol_points = <<>>
    /\ DetLocalsIdle

GeoIdle ==
    /\ geo_position = <<0, 0>>
    /\ geo_point = NoZone
    /\ geo_result = "unset"

NoVideo == [openable |-> FALSE, frames |-> 0, frame_count_prop |-> 0,
            fps_prop |-> 0, display |-> FALSE]

NoReads == [n |-> 0, last |-> None, ordered |-> TRUE]

RunLocalsIdle ==
    /\ run_pc = "idle"
    /\ cap = "unbound"
    /\ pos_frames = 0
    /\ total_frames = 0
    /\ fps = 0
    /\ enable_gui = "unbound"
    /\ window = FALSE
    /\ frame_count = 0
    /\ is_paused = FALSE
    /\ last_frame = None
    /\ next_log_frame = 0
    /\ shown = None
    /\ reads = NoReads
    /\ raised = "none"

RunIdle ==
    /\ video = NoVideo
    /\ RunLocalsIdle

Threads == {"t1", "t2"}

LoopLocalsIdle ==
    /\ vp_pos = 0
    /\ vp_returned = None
    /\ vp_wrapped = FALSE
    /\ vp_calls = 0
    /\ is_running = FALSE
    /\ rd_pc = "idle"
    /\ rd_pos = 0
    /\ rd_last = None
    /\ rd_failed = FALSE
    /\ rd_reads = 0
    /\ frame_queue = <<>>

LoopIdle ==
    /\ source_frames = 0
    /\ LoopLocalsIdle

LockIdle ==
    /\ face_recognition_lock = "free"
    /\ th_pc = [t \in Threads |-> "idle"]
    /\ th_exit = [t \in Threads |-> "none"]

ThrIdle ==
    /\ thr_probe = <<>>
    /\ thr_confident = "unset"
    /\ thr_close = "unset"

NoLookup == [probe |-> <<>>, index |-> 0, owner |-> NoGuard, guard |-> NoGuard]

RsIdle ==
    /\ rs_rows = <<>>
    /\ rs_next = 0
    /\ rs_lookup = NoLookup

NoBand == [min_radius |-> 0, max_radius |-> 0, default_radius |-> 0]
(* The call did not return: an exception left it *)
Raised == -2
NoAdd == [n |-> 0, radius |-> None, result |-> 0]

PpIdle ==
    /\ pp_config = NoBand
    /\ pp_table = <<>>
    /\ pp_points = {}
    /\ pp_last = NoAdd

NoClip == [openable |-> FALSE, frames |-> 0, frame_count_prop |-> 0,
           fps_prop |-> 0, show_process |-> FALSE]

ExLocalsIdle ==
    /\ ex_pc = "idle"
    /\ ex_total_frames = 0
    /\ ex_fps = 0
    /\ ex_frame_count = 0
    /\ last_screenshot_time = 0
    /\ screenshot_paths = <<>>
    /\ ex_examined = {}

ExIdle ==
    /\ ex_video = NoClip
    /\ ExLocalsIdle

TsIdle ==
    /\ result_queue = <<>>
    /\ pr_pc = "idle"
    /\ pr_frame = None
    /\ main_pc = "idle"
    /\ ts_raced = FALSE

(* The two operating modes of start_video_file_monitor *)
Profiles == {"headless", "interactive"}

RpLocalsIdle ==
    /\ rp_count = [p \in Profiles |-> 0]
    /\ rp_last = [p \in Profiles |-> [g \in AllIds |-> None]]
    /\ rp_events = [p \in Profiles |-> {}]
    /\ rp_at = [p \in Profiles |-> <<>>]

RpIdle ==
    /\ rp_frames = <<>>
    /\ RpLocalsIdle

ExtIdle == ThrIdle /\ RsIdle /\ PpIdle /\ ExIdle /\ TsIdle /\ RpIdle

PipeIdle == RunIdle /\ LoopIdle /\ LockIdle /\ ExtIdle

Init == FMInit /\ DetIdle /\ GeoIdle /\ PipeIdle

known_guard_info == {known_guard_keys[i] : i \in 1..Len(known_guard_keys)}

IsKnownGuard_Always(g) == TRUE

(* Line 86: guard_id in self.known_guard_info *)
IsKnownGuard(g) == g \in known_guard_info

(* Leaving _record_patrol: back in the loop over matched_faces (line 340), *)
(* or back at the caller of a direct call                                  *)
Return(w) ==
    /\ pc' = [pc EXCEPT ![w] = IF w = Caller /\ matched_faces # <<>>
                                THEN "loop" ELSE "idle"]
    /\ guard_id' = [guard_id EXCEPT ![w] = NoGuard]

(* One iteration of the frame loop, line 337: _recognize_face on the frame *)
ProcessFrame(frame) ==
    /\ pc[Caller] = "idle"
    /\ recognized' = RecognizeFace(frame, known_guard_keys)
    /\ matched_faces' = MatchedOf(recognized')
    /\ pc' = [pc EXCEPT ![Caller] = "loop"]
    /\ lastCall' = NoCall
    /\ UNCHANGED <<now, patrol_records, known_guard_keys, known_face_encodings,
                   last_recognition_time, guard_id, can_now, stamp>>
    /\ UNCHANGED <<detVars, geoVars, pipeVars>>

(* Lines 340-341: for guard_id, ... in matched_faces: _record_patrol(guard_id) *)
LoopNext ==
    /\ pc[Caller] = "loop"
    /\ recognized' = <<>>
    /\ IF matched_faces = <<>>
       THEN /\ pc' = [pc EXCEPT ![Caller] = "idle"]
            /\ UNCHANGED <<guard_id, matched_faces, lastCall>>
       ELSE /\ pc' = [pc EXCEPT ![Caller] = "call"]
            /\ guard_id' = [guard_id EXCEPT ![Caller] = Head(matched_faces)]
            /\ matched_faces' = Tail(matched_faces)
            /\ lastCall' = NoCall
    /\ UNCHANGED <<now, patrol_records, known_guard_keys, known_face_encodings,
                   last_recognition_time, can_now, stamp>>
    /\ UNCHANGED <<detVars, geoVars, pipeVars>>

(* A direct call _record_patrol(g) *)
CallRecord(w, g) ==
    /\ pc[w] = "idle"
    /\ pc' = [pc EXCEPT ![w] = "call"]
    /\ guard_id' = [guard_id EXCEPT ![w] = g]
    /\ lastCall' = NoCall
    /\ UNCHANGED <<now, patrol_records, known_guard_keys, known_face_encodings,
                   last_recognition_time, can_now, stamp, matched_faces,
                   recognized>>
    /\ UNCHANGED <<detVars, geoVars, pipeVars>>

(* _record_patrol, lines 86-92: the roster check and _can_record_patrol *)
CheckPatrol(w) ==
    /\ pc[w] = "call"
    /\ LET g == guard_id[w]
       IN IF ~ IsKnownGuard(g)
          THEN /\ Done(g, None, None, "unknown")
               /\ Return(w)
               /\ UNCHANGED <<can_now>>
          ELSE IF ~ _can_record_patrol(g, now, last_recognition_time)
          THEN /\ Done(g, now, last_recognition_time[g], "suppressed")
               /\ Return(w)
               /\ UNCHANGED <<can_now>>
          ELSE /\ pc' = [pc EXCEPT ![w] = "write"]
               /\ can_now' = [can_now EXCEPT ![w] = now]
               /\ UNCHANGED <<guard_id, lastCall>>
    /\ UNCHANGED <<now, patrol_records, known_guard_keys, known_face_encodings,
                   last_recognition_time, stamp, matched_faces, recognized>>
    /\ UNCHANGED <<detVars, geoVars, pipeVars>>

(* _record_patrol, lines 95-102: now = datetime.now(); execute_update *)
WritePatrol(w) ==
    /\ pc[w] = "write"
    /\ patrol_records' = Insert(patrol_records, guard_id[w], NoPoint, now)
    /\ stamp' = [stamp EXCEPT ![w] = now]
    /\ pc' = [pc EXCEPT ![w] = "update"]
    /\ UNCHANGED <<now, known_guard_keys, known_face_encodings,
                   last_recognition_time, guard_id, can_now, matched_faces,
                   recognized, lastCall>>
    /\ UNCHANGED <<detVars, geoVars, pipeVars>>

WriteFails_Stamps(w) ==
    /\ pc[w] = "write"
    /\ Done(guard_id[w], can_now[w], last_recognition_time[guard_id[w]], "failed")
    /\ Return(w)
    /\ can_now' = [can_now EXCEPT ![w] = None]
    /\ last_recognition_time' =
           [last_recognition_time EXCEPT ![guard_id[w]] = now]
    /\ UNCHANGED <<now, patrol_records, known_guard_keys, known_face_encodings,
                   stamp, matched_faces, recognized>>
    /\ UNCHANGED <<detVars, geoVars, pipeVars>>

(* execute_update raises: caught at line 110, nothing written *)
WriteFails(w) ==
    /\ pc[w] = "write"
    /\ Done(guard_id[w], can_now[w], last_recognition_time[guard_id[w]], "failed")
    /\ Return(w)
    /\ can_now' = [can_now EXCEPT ![w] = None]
    /\ UNCHANGED <<now, patrol_records, known_guard_keys, known_face_encodings,
                   last_recognition_time, stamp, matched_faces, recognized>>
    /\ UNCHANGED <<detVars, geoVars, pipeVars>>

(* _record_patrol, line 105: last_recognition_time[guard_id] = now *)
UpdateLast(w) ==
    /\ pc[w] = "update"
    /\ last_recognition_time' =
           [last_recognition_time EXCEPT ![guard_id[w]] = stamp[w]]
    /\ Done(guard_id[w], can_now[w], last_recognition_time[guard_id[w]], "recorded")
    /\ Return(w)
    /\ can_now' = [can_now EXCEPT ![w] = None]
    /\ stamp' = [stamp EXCEPT ![w] = None]
    /\ UNCHANGED <<now, patrol_records, known_guard_keys, known_face_encodings,
                   matched_faces, recognized>>
    /\ UNCHANGED <<detVars, geoVars, pipeVars>>

Frames ==
    UNION {[1..n -> Probes(Len(known_face_encodings))] : n \in 0..MaxFaces}

Next ==
    \/ Tick
    \/ \E frame \in Frames : ProcessFrame(frame)
    \/ LoopNext
    \/ \E g \in AllIds : CallRecord(Caller, g)
    \/ CheckPatrol(Caller)
    \/ WritePatrol(Caller)
    \/ WriteFails(Caller)
    \/ UpdateLast(Caller)

Spec == Init /\ [][Next]_vars

(* Two workers calling _record_patrol on one FaceMonitor, for one identity *)
Contended == {"G1"}

InitWorkers ==
    /\ Init
    /\ known_guard_keys = <<"G1", "G2">>

NextWorkers ==
    \/ Tick
    \/ \E w \in Workers, g \in Contended : CallRecord(w, g)
    \/ \E w \in Workers : CheckPatrol(w)
    \/ \E w \in Workers : WritePatrol(w)
    \/ \E w \in Workers : WriteFails(w)
    \/ \E w \in Workers : UpdateLast(w)

SpecWorkers == InitWorkers /\ [][NextWorkers]_vars

------------------------------------------------------------------------------
(* PatrolDetector: geometry *)

Abs(x) == IF x < 0 THEN 0 - x ELSE x

(* np.sqrt of a non-negative integer, as its floor and whether it is exact *)
Sqrt(n, limit) ==
    LET s == CHOOSE k \in 0..limit : k * k <= n /\ n < (k + 1) * (k + 1)
    IN [floor |-> s, exact |-> s * s = n]

_is_in_patrol_point_Strict(position, point) ==
    LET dx == position[1] - point.coord_x
        dy == position[2] - point.coord_y
        distance == Sqrt(dx * dx + dy * dy, Abs(dx) + Abs(dy))
    IN distance.floor < point.radius

(* distance = np.sqrt((x - coord_x) ** 2 + (y - coord_y) ** 2)             *)
(* return distance <= point.radius                                         *)
_is_in_patrol_point(position, point) ==
    LET dx == position[1] - point.coord_x
        dy == position[2] - point.coord_y
        distance == Sqrt(dx * dx + dy * dy, Abs(dx) + Abs(dy))
    IN \/ distance.floor < point.radius
       \/ distance.floor = point.radius /\ distance.exact

(* face_img = image[top:bottom, left:right]; height, width = face_img.shape[:2] *)
Shape(f) == [height |-> f.bottom - f.top, width |-> f.right - f.left]

(* return (width // 2, height // 2) *)
_get_face_center(f) == <<Shape(f).width \div 2, Shape(f).height \div 2>>

------------------------------------------------------------------------------
(* PatrolDetector: detect_faces and _identify_guard *)

(* FACE_RECOGNITION_CONFIG; min_confidence in tenths *)
MinFaceSize == 64
MinConfidence == 8

(* FaceRecognizer.detect_faces: faces smaller than min_face_size are skipped *)
detect_faces(locations) ==
    LET BigEnough(f) == ~ (Shape(f).height < MinFaceSize \/ Shape(f).width < MinFaceSize)
    IN SelectSeq(locations, BigEnough)

(* FaceRecognizer.compare_faces: similarity = 1 - distance *)
Similarity(distance) == 10 - distance

RECURSIVE IdentifyLoop(_, _, _, _, _)
IdentifyLoop(probe, rows, i, max_similarity, matched_guard) ==
    IF i > Len(rows) THEN matched_guard
    ELSE LET similarity == Similarity(probe[i])
         IN IF similarity > max_similarity
            THEN IdentifyLoop(probe, rows, i + 1, similarity,
                              IF similarity >= MinConfidence THEN rows[i]
                              ELSE matched_guard)
            ELSE IdentifyLoop(probe, rows, i + 1, max_similarity, matched_guard)

_identify_guard(probe, rows) == IdentifyLoop(probe, rows, 1, 0, NoGuard)

------------------------------------------------------------------------------
(* PatrolDetector.detect_frame *)

MaxFrames == 2

Z1 == [point_id |-> 1, coord_x |-> 100, coord_y |-> 100, radius |-> 50]
Z2 == [point_id |-> 2, coord_x |-> 62, coord_y |-> 72, radius |-> 50]
Z3 == [point_id |-> 3, coord_x |-> 32, coord_y |-> 32, radius |-> 20]
ZoneConfigs == {<<Z1>>, <<Z1, Z2, Z3>>}

Boxes == {[top |-> 0, right |-> 64, bottom |-> 64, left |-> 0],
          [top |-> 68, right |-> 132, bottom |-> 132, left |-> 68],
          [top |-> 0, right |-> 200, bottom |-> 200, left |-> 0],
          [top |-> 0, right |-> 32, bottom |-> 32, left |-> 0]}
DetProbes == {<<1, 2>>, <<2, 1>>, <<2, 7>>, <<7, 7>>}
Locations ==
    {[top |-> b.top, right |-> b.right, bottom |-> b.bottom, left |-> b.left,
      probe |-> q] : b \in Boxes, q \in DetProbes}
DetFrames == UNION {[1..n -> Locations] : n \in 0..MaxFaces}

DetInit ==
    /\ FMInit
    /\ known_guard_keys = <<>>
    /\ GeoIdle
    /\ PipeIdle
    /\ DetLocalsIdle
    /\ guards_table = <<"G1", "G2">>
    /\ patrol_points \in ZoneConfigs

(* The zones of the camera that contain the point, in patrol_points order *)
Containing(g, position) ==
    LET Inside(z) == _is_in_patrol_point(position, z)
        sel == SelectSeq(patrol_points, Inside)
    IN [i \in 1..Len(sel) |-> <<sel[i].point_id, g>>]

(* return value of detect_frame; the locals die with the call *)
DetReturn(value) ==
    /\ returned' = value
    /\ det_pc' = "idle"
    /\ faces' = <<>>
    /\ face' = NoFace
    /\ guard' = NoGuard
    /\ face_center' = <<0, 0>>
    /\ point_idx' = 0
    /\ results' = <<>>

(* Lines 46-50: faces = detect_faces(frame); if not faces: return [] *)
DetectFrame(frame) ==
    /\ det_pc = "idle"
    /\ frames_done < MaxFrames
    /\ frames_done' = frames_done + 1
    /\ calls' = <<>>
    /\ expected' = <<>>
    /\ IF detect_faces(frame) = <<>>
       THEN DetReturn(<<>>)
       ELSE /\ det_pc' = "face"
            /\ faces' = detect_faces(frame)
            /\ results' = <<>>
            /\ returned' = NotReturned
            /\ UNCHANGED <<face, guard, face_center, point_idx>>
    /\ UNCHANGED <<now, patrol_records, fmVars, geoVars, pipeVars, guards_table, patrol_points>>

(* detect_faces raises inside: caught at face_recognition.py:43, no faces *)
DetectFacesFails ==
    /\ det_pc = "idle"
    /\ frames_done < MaxFrames
    /\ frames_done' = frames_done + 1
    /\ calls' = <<>>
    /\ expected' = <<>>
    /\ DetReturn(<<>>)
    /\ UNCHANGED <<now, patrol_records, fmVars, geoVars, pipeVars, guards_table, patrol_points>>

(* Line 51, loop exhausted: return results *)
FacesDone ==
    /\ det_pc = "face"
    /\ faces = <<>>
    /\ DetReturn(results)
    /\ UNCHANGED <<now, patrol_records, fmVars, geoVars, pipeVars, guards_table, patrol_points,
                   calls, expected, frames_done>>

(* Lines 53-58: guard = _identify_guard(face_encoding); face_center *)
IdentifyGuard ==
    /\ det_pc = "face"
    /\ faces # <<>>
    /\ LET f == Head(faces)
           g == _identify_guard(f.probe, guards_table)
       IN /\ faces' = Tail(faces)
          /\ IF g = NoGuard
             THEN UNCHANGED <<det_pc, face, guard, face_center, point_idx, expected>>
             ELSE /\ det_pc' = "zone"
                  /\ face' = f
                  /\ guard' = g
                  /\ face_center' = _get_face_center(f)
                  /\ point_idx' = 1
                  /\ expected' = expected \o Containing(g, _get_face_center(f))
    /\ UNCHANGED <<now, patrol_records, fmVars, geoVars, pipeVars, guards_table, patrol_points,
                   results, calls, returned, frames_done>>

(* The query of _identify_guard raises: caught at line 122, guard is None *)
IdentifyQueryFails ==
    /\ det_pc = "face"
    /\ faces # <<>>
    /\ faces' = Tail(faces)
    /\ UNCHANGED <<now, patrol_records, fmVars, geoVars, pipeVars, guards_table, patrol_points,
                   det_pc, face, guard, face_center, point_idx, results, calls,
                   expected, returned, frames_done>>

(* with_db_connection gets no connection for _identify_guard: it raises,   *)
(* detect_frame catches at line 69 and returns []                          *)
IdentifyConnFails ==
    /\ det_pc = "face"
    /\ faces # <<>>
    /\ DetReturn(<<>>)
    /\ UNCHANGED <<now, patrol_records, fmVars, geoVars, pipeVars, guards_table, patrol_points,
                   calls, expected, frames_done>>

(* Line 61, loop over patrol_points exhausted *)
PointsDone ==
    /\ det_pc = "zone"
    /\ point_idx > Len(patrol_points)
    /\ det_pc' = "face"
    /\ UNCHANGED <<now, patrol_records, fmVars, geoVars, pipeVars, guards_table, patrol_points,
                   faces, face, guard, face_center, point_idx, results, calls,
                   expected, returned, frames_done>>

(* Line 62: the face centre is outside the point *)
PointSkipped ==
    /\ det_pc = "zone"
    /\ point_idx <= Len(patrol_points)
    /\ ~ _is_in_patrol_point(face_center, patrol_points[point_idx])
    /\ point_idx' = point_idx + 1
    /\ UNCHANGED <<now, patrol_records, fmVars, geoVars, pipeVars, guards_table, patrol_points,
                   det_pc, faces, face, guard, face_center, results, calls,
                   expected, returned, frames_done>>

InPoint ==
    /\ det_pc = "zone"
    /\ point_idx <= Len(patrol_points)
    /\ _is_in_patrol_point(face_center, patrol_points[point_idx])

(* Lines 62-65 and add_patrol_record, lines 89-97: the row is inserted *)
RecordOk ==
    /\ InPoint
    /\ patrol_records' = Insert(patrol_records, guard,
                                patrol_points[point_idx].point_id, now)
    /\ calls' = Append(calls, <<patrol_points[point_idx].point_id, guard>>)
    /\ results' = Append(results, <<patrol_points[point_idx].point_id, guard>>)
    /\ point_idx' = point_idx + 1
    /\ UNCHANGED <<now, fmVars, geoVars, pipeVars, guards_table, patrol_points, det_pc, faces,
                   face, guard, face_center, expected, returned, frames_done>>

(* add_patrol_record, lines 98-100: the insert raises, it returns False;   *)
(* detect_frame ignores the value                                          *)
RecordInsertFails ==
    /\ InPoint
    /\ calls' = Append(calls, <<patrol_points[point_idx].point_id, guard>>)
    /\ results' = Append(results, <<patrol_points[point_idx].point_id, guard>>)
    /\ point_idx' = point_idx + 1
    /\ UNCHANGED <<now, patrol_records, fmVars, geoVars, pipeVars, guards_table, patrol_points,
                   det_pc, faces, face, guard, face_center, expected, returned,
                   frames_done>>

(* with_db_connection gets no connection for add_patrol_record: it raises  *)
(* (db_utils.py:29-31), detect_frame catches at line 69 and returns []     *)
RecordConnFails ==
    /\ InPoint
    /\ calls' = Append(calls, <<patrol_points[point_idx].point_id, guard>>)
    /\ DetReturn(<<>>)
    /\ UNCHANGED <<now, patrol_records, fmVars, geoVars, pipeVars, guards_table, patrol_points,
                   expected, frames_done>>

NextDetect ==
    \/ Tick
    \/ \E frame \in DetFrames : DetectFrame(frame)
    \/ DetectFacesFails
    \/ FacesDone
    \/ IdentifyGuard
    \/ IdentifyQueryFails
    \/ IdentifyConnFails
    \/ PointsDone
    \/ PointSkipped
    \/ RecordOk
    \/ RecordInsertFails
    \/ RecordConnFails

SpecDetect == DetInit /\ [][NextDetect]_vars

------------------------------------------------------------------------------
(* _is_in_patrol_point applied to every point and zone of a small grid *)

MaxCoord == 5
MaxRadius == 5

GeoZones ==
    {[point_id |-> 1, coord_x |-> cx, coord_y |-> cy, radius |-> r] :
        cx \in 0..MaxCoord, cy \in 0..MaxCoord, r \in 0..MaxRadius}

GeoInit ==
    /\ FMInit
    /\ known_guard_keys = <<>>
    /\ DetIdle
    /\ PipeIdle
    /\ geo_position \in (0..MaxCoord) \X (0..MaxCoord)
    /\ geo_point \in GeoZones
    /\ geo_result = "unset"

EvalGeofence ==
    /\ geo_result = "unset"
    /\ geo_result' = IF _is_in_patrol_point(geo_position, geo_point) THEN "in" ELSE "out"
    /\ UNCHANGED <<now, patrol_records, fmVars, detVars, pipeVars, geo_position,
                   geo_point>>

NextGeo == EvalGeofence

SpecGeo == GeoInit /\ [][NextGeo]_vars

------------------------------------------------------------------------------
(* FaceMonitor.start_video_file_monitor: the control loop over a file      *)

MaxLength == 7
MaxReads == 9

(* Line 293: the frame rate used when the source reports 0 *)
DefaultFps == 30
(* Lines 399 and 406: a seek jumps fps * 5 frames *)
SeekSeconds == 5

(* cv2.waitKey(1) & 0xFF: no key, q, space, the left and right arrows *)
Keys == {"none", "q", "space", "left", "right"}

Max(a, b) == IF a >= b THEN a ELSE b
Min(a, b) == IF a <= b THEN a ELSE b

(* The sources: a path that does not open, or a file of `frames` frames    *)
(* whose CAP_PROP_FRAME_COUNT is the number of frames, or 0 or negative    *)
(* for a container without a usable frame count, and whose CAP_PROP_FPS    *)
(* may be 0; display is has_display() and not force_no_gui                 *)
Videos ==
    {NoVideo} \cup
    {v \in [openable : {TRUE}, frames : {0, MaxLength},
            frame_count_prop : {-1, 0, MaxLength}, fps_prop : {0, 1},
            display : BOOLEAN] :
        IF v.frames = 0 THEN v.frame_count_prop = 0
        ELSE v.frame_count_prop \in {v.frames, 0, -1}}

(* cap.set(cv2.CAP_PROP_POS_FRAMES, target): the position asked for; for a *)
(* negative target the backend keeps it or starts over at frame 0          *)
CapSet(target) == IF target < 0 THEN {target, 0} ELSE {target}

(* What the frames of the file show: nobody, or one face next to the      *)
(* first roster entry                                                      *)
VideoFrames == {<<>>, <<<<3, 7>>>>}

(* Leaving the try block: by break (exception "none") or by an exception   *)
Leave(exception) ==
    /\ run_pc' = "finally"
    /\ raised' = exception

isOpened_Unchecked(v) == TRUE

(* Lines 285-287: cap = cv2.VideoCapture(video_path); cap.isOpened() *)
isOpened(v) == v.openable

(* Lines 280-314: open the source, read its properties, set up the loop *)
VidOpen ==
    /\ run_pc = "idle"
    /\ IF ~ isOpened(video)
       THEN /\ cap' = "closed"
            /\ Leave("cannot open")
            /\ UNCHANGED <<pos_frames, total_frames, fps, enable_gui, window,
                           frame_count, is_paused, last_frame, next_log_frame>>
       ELSE /\ cap' = "open"
            /\ pos_frames' = 0
            /\ total_frames' = video.frame_count_prop
            /\ fps' = IF video.fps_prop = 0 THEN DefaultFps ELSE video.fps_prop
            /\ enable_gui' = IF video.display THEN "True" ELSE "False"
            /\ window' = video.display
            /\ frame_count' = 0
            /\ is_paused' = FALSE
            /\ last_frame' = None
            /\ next_log_frame' = fps'
            /\ run_pc' = "loop"
            /\ UNCHANGED raised
    /\ UNCHANGED <<video, shown, reads>>
    /\ UNCHANGED <<now, patrol_records, fmVars, detVars, geoVars,
                   loopVars, lockVars, extVars>>

Reading_WhilePaused == TRUE

(* Line 319: if not is_paused *)
Reading == ~ is_paused

(* Lines 319-334: cap.read(), frame_count += 1, the progress log *)
VidRead ==
    /\ run_pc = "loop"
    /\ Reading
    /\ IF ~ (0 <= pos_frames /\ pos_frames < video.frames)
       THEN /\ Leave("none")
            /\ UNCHANGED <<pos_frames, frame_count, reads, next_log_frame>>
       ELSE /\ reads.n < MaxReads
            /\ pos_frames' = pos_frames + 1
            /\ frame_count' = frame_count + 1
            /\ reads' = [n |-> reads.n + 1, last |-> pos_frames,
                         ordered |-> reads.ordered /\ pos_frames = reads.n]
            /\ IF frame_count' >= next_log_frame
               THEN IF total_frames = 0
                    THEN /\ Leave("ZeroDivisionError")
                         /\ UNCHANGED next_log_frame
                    ELSE /\ next_log_frame' = frame_count' + fps
                         /\ run_pc' = "recognize"
                         /\ UNCHANGED raised
               ELSE /\ run_pc' = "recognize"
                    /\ UNCHANGED <<next_log_frame, raised>>
    /\ UNCHANGED <<video, cap, total_frames, fps, enable_gui, window, is_paused,
                   last_frame, shown>>
    /\ UNCHANGED <<now, patrol_records, fmVars, detVars, geoVars,
                   loopVars, lockVars, extVars>>

(* Line 337: matched_faces, unmatched_faces = self._recognize_face(frame) *)
VidRecognize(frame) ==
    /\ run_pc = "recognize"
    /\ recognized' = RecognizeFace(frame, known_guard_keys)
    /\ matched_faces' = MatchedOf(recognized')
    /\ pc' = [pc EXCEPT ![Caller] = "loop"]
    /\ lastCall' = NoCall
    /\ run_pc' = "frame"
    /\ UNCHANGED <<now, patrol_records, known_guard_keys, known_face_encodings,
                   last_recognition_time, guard_id, can_now, stamp>>
    /\ UNCHANGED <<video, cap, pos_frames, total_frames, fps, enable_gui, window,
                   frame_count, is_paused, last_frame, next_log_frame, shown,
                   reads, raised>>
    /\ UNCHANGED <<detVars, geoVars, loopVars, lockVars, extVars>>

(* Line 337: cvtColor or a face_recognition call raises inside             *)
(* _recognize_face; nothing catches it before line 423                     *)
VidRecognizeRaises ==
    /\ run_pc = "recognize"
    /\ Leave("recognition error")
    /\ UNCHANGED <<video, cap, pos_frames, total_frames, fps, enable_gui, window,
                   frame_count, is_paused, last_frame, next_log_frame, shown,
                   reads>>
    /\ UNCHANGED <<now, patrol_records, fmVars, detVars, geoVars,
                   loopVars, lockVars, extVars>>

(* Lines 397-402 and 404-409: the seek to target_frame *)
Seek(target_frame) ==
    /\ pos_frames' \in CapSet(target_frame)
    /\ frame_count' = target_frame
    /\ next_log_frame' = target_frame + (fps - (target_frame % fps))

Interactive_Always == TRUE

(* Line 344: if enable_gui *)
Interactive == enable_gui = "True"

(* Lines 343-410, after the loop over matched_faces: render, then the key *)
VidKey(key) ==
    /\ run_pc = "frame"
    /\ pc[Caller] = "idle"
    /\ IF ~ Interactive
       THEN /\ key = "none"
            /\ run_pc' = "loop"
            /\ UNCHANGED <<pos_frames, frame_count, is_paused, last_frame,
                           next_log_frame, shown, raised>>
       ELSE IF total_frames = 0
       THEN /\ key = "none"
            /\ Leave("ZeroDivisionError")
            /\ UNCHANGED <<pos_frames, frame_count, is_paused, last_frame,
                           next_log_frame, shown>>
       ELSE /\ last_frame' = reads.last
            /\ shown' = reads.last
            /\ CASE key = "q" ->
                      /\ Leave("none")
                      /\ UNCHANGED <<pos_frames, frame_count, is_paused,
                                     next_log_frame>>
                 [] key = "space" ->
                      /\ is_paused' = ~ is_paused
                      /\ run_pc' = "loop"
                      /\ UNCHANGED <<pos_frames, frame_count, next_log_frame,
                                     raised>>
                 [] key = "left" ->
                      /\ Seek(Max(0, pos_frames - fps * SeekSeconds))
                      /\ run_pc' = "loop"
                      /\ UNCHANGED <<is_paused, raised>>
                 [] key = "right" ->
                      /\ Seek(Min(total_frames - 1, pos_frames + fps * SeekSeconds))
                      /\ run_pc' = "loop"
                      /\ UNCHANGED <<is_paused, raised>>
                 [] OTHER ->
                      /\ run_pc' = "loop"
                      /\ UNCHANGED <<pos_frames, frame_count, is_paused,
                                     next_log_frame, raised>>
    /\ UNCHANGED <<video, cap, total_frames, fps, enable_gui, window, reads>>
    /\ UNCHANGED <<now, patrol_records, fmVars, detVars, geoVars,
                   loopVars, lockVars, extVars>>

(* Lines 413-421: paused, the last frame is shown again and a key polled *)
VidPaused(key) ==
    /\ run_pc = "loop"
    /\ is_paused
    /\ enable_gui = "True"
    /\ shown' = last_frame
    /\ CASE key = "q" ->
              /\ Leave("none")
              /\ UNCHANGED is_paused
         [] key = "space" ->
              /\ is_paused' = FALSE
              /\ UNCHANGED <<run_pc, raised>>
         [] OTHER ->
              UNCHANGED <<run_pc, raised, is_paused>>
    /\ UNCHANGED <<video, cap, pos_frames, total_frames, fps, enable_gui, window,
                   frame_count, last_frame, next_log_frame, reads>>
    /\ UNCHANGED <<now, patrol_records, fmVars, detVars, geoVars,
                   loopVars, lockVars, extVars>>

(* Lines 423-432: except logs and re-raises; finally releases the handle   *)
(* and, reading enable_gui, closes the window                              *)
VidFinally ==
    /\ run_pc = "finally"
    /\ cap' = "released"
    /\ IF enable_gui = "unbound"
       THEN /\ raised' = "UnboundLocalError"
            /\ UNCHANGED window
       ELSE /\ window' = FALSE
            /\ UNCHANGED raised
    /\ run_pc' = IF raised' = "none" THEN "returned" ELSE "raised"
    /\ UNCHANGED <<video, pos_frames, total_frames, fps, enable_gui, frame_count,
                   is_paused, last_frame, next_log_frame, shown, reads>>
    /\ UNCHANGED <<now, patrol_records, fmVars, detVars, geoVars,
                   loopVars, lockVars, extVars>>

InitVideo ==
    /\ FMInit
    /\ known_guard_keys = <<"G1", "G2">>
    /\ DetIdle
    /\ GeoIdle
    /\ LoopIdle
    /\ LockIdle
    /\ RunLocalsIdle
    /\ video \in Videos
    /\ ExtIdle

NextVideo ==
    \/ Tick
    \/ VidOpen
    \/ VidRead
    \/ \E frame \in VideoFrames : VidRecognize(frame)
    \/ VidRecognizeRaises
    \/ LoopNext
    \/ CheckPatrol(Caller)
    \/ WritePatrol(Caller)
    \/ WriteFails(Caller)
    \/ UpdateLast(Caller)
    \/ \E key \in Keys : VidKey(key)
    \/ \E key \in Keys : VidPaused(key)
    \/ VidFinally

SpecVideo == InitVideo /\ [][NextVideo]_vars

------------------------------------------------------------------------------
(* Looping sources: VideoProcessor.get_frame, and the _read_frames thread  *)
(* of PatrolDetectionTester                                                *)

MaxSourceFrames == 3
MaxCalls == 6
MaxQueue == 2

Rewind_Stuck(pos) == pos

(* video_processor.py:34 and test_patrol_detection.py:190:                 *)
(* cap.set(cv2.CAP_PROP_POS_FRAMES, 0)                                     *)
Rewind(pos) == 0

(* cap.read() at position pos of a source of n frames: <<ret, frame, pos>> *)
Read(pos, n) ==
    IF 0 <= pos /\ pos < n THEN <<TRUE, pos, pos + 1>> ELSE <<FALSE, None, pos>>

(* VideoProcessor.get_frame, lines 24-39 *)
GetFrame(known) ==
    /\ vp_calls < MaxCalls
    /\ vp_calls' = vp_calls + 1
    /\ IF ~ known
       THEN /\ vp_returned' = None
            /\ vp_wrapped' = FALSE
            /\ UNCHANGED vp_pos
       ELSE LET first == Read(vp_pos, source_frames)
                second == Read(Rewind(vp_pos), source_frames)
                got == IF first[1] THEN first ELSE second
            IN /\ vp_wrapped' = ~ first[1]
               /\ vp_pos' = got[3]
               /\ vp_returned' = IF got[1] THEN got[2] ELSE None
    /\ UNCHANGED <<source_frames, is_running, rd_pc, rd_pos, rd_last, rd_failed,
                   rd_reads, frame_queue>>
    /\ UNCHANGED <<now, patrol_records, fmVars, detVars, geoVars,
                   runVars, lockVars, extVars>>

(* PatrolDetectionTester.run, lines 137-151: the threads are started *)
TesterRun ==
    /\ rd_pc = "idle"
    /\ is_running' = TRUE
    /\ rd_pc' = "loop"
    /\ rd_pos' = 0
    /\ UNCHANGED <<source_frames, vp_pos, vp_returned, vp_wrapped, vp_calls,
                   rd_last, rd_failed, rd_reads, frame_queue>>
    /\ UNCHANGED <<now, patrol_records, fmVars, detVars, geoVars,
                   runVars, lockVars, extVars>>

(* _read_frames, lines 181-198: one pass of the loop that reads *)
ReadPass ==
    /\ rd_pc = "loop"
    /\ is_running
    /\ LET got == Read(rd_pos, source_frames)
       IN IF ~ got[1]
          THEN /\ rd_pos' = Rewind(rd_pos)
               /\ rd_failed' = TRUE
               /\ UNCHANGED <<rd_last, frame_queue>>
          ELSE /\ rd_pos' = got[3]
               /\ rd_failed' = FALSE
               /\ rd_last' = got[2]
               /\ frame_queue' = IF Len(frame_queue) < MaxQueue
                                 THEN Append(frame_queue, got[2])
                                 ELSE frame_queue
    /\ UNCHANGED <<source_frames, vp_pos, vp_returned, vp_wrapped, vp_calls,
                   is_running, rd_pc>>
    /\ UNCHANGED <<now, patrol_records, fmVars, detVars, geoVars,
                   runVars, lockVars, extVars>>

(* The passes of one run, counted *)
ReadFrames ==
    /\ rd_reads < MaxCalls
    /\ rd_reads' = rd_reads + 1
    /\ ReadPass

(* _read_frames, line 181: is_running is False, the thread ends *)
ReadFramesEnds ==
    /\ rd_pc = "loop"
    /\ ~ is_running
    /\ rd_pc' = "done"
    /\ UNCHANGED <<source_frames, vp_pos, vp_returned, vp_wrapped, vp_calls,
                   is_running, rd_pos, rd_last, rd_failed, rd_reads, frame_queue>>
    /\ UNCHANGED <<now, patrol_records, fmVars, detVars, geoVars,
                   runVars, lockVars, extVars>>

(* _process_frames, line 204: frame_queue.get *)
QueueGet ==
    /\ is_running
    /\ frame_queue # <<>>
    /\ frame_queue' = Tail(frame_queue)
    /\ UNCHANGED <<source_frames, vp_pos, vp_returned, vp_wrapped, vp_calls,
                   is_running, rd_pc, rd_pos, rd_last, rd_failed, rd_reads>>
    /\ UNCHANGED <<now, patrol_records, fmVars, detVars, geoVars,
                   runVars, lockVars, extVars>>

(* run, lines 162-166: q is pressed, or KeyboardInterrupt *)
TesterQuit ==
    /\ is_running
    /\ is_running' = FALSE
    /\ UNCHANGED <<source_frames, vp_pos, vp_returned, vp_wrapped, vp_calls,
                   rd_pc, rd_pos, rd_last, rd_failed, rd_reads, frame_queue>>
    /\ UNCHANGED <<now, patrol_records, fmVars, detVars, geoVars,
                   runVars, lockVars, extVars>>

InitLoop ==
    /\ FMInit
    /\ known_guard_keys = <<>>
    /\ DetIdle
    /\ GeoIdle
    /\ RunIdle
    /\ LockIdle
    /\ LoopLocalsIdle
    /\ source_frames \in 0..MaxSourceFrames
    /\ ExtIdle

NextLoop ==
    \/ \E known \in BOOLEAN : GetFrame(known)
    \/ TesterRun
    \/ ReadFrames
    \/ ReadFramesEnds
    \/ QueueGet
    \/ TesterQuit

SpecLoop == InitLoop /\ [][NextLoop]_vars

------------------------------------------------------------------------------
(* Threads running model inference: FaceScreenshotExtractor._process_frame *)
(* under face_recognition_lock, and FaceMonitor._recognize_face            *)

(* Positions at which a thread is inside a face_recognition call *)
Guarded == {"pf_locations", "pf_encodings", "pf_compare", "pf_distance"}
Unguarded == {"rf_locations", "rf_encodings", "rf_compare"}
Inference == Guarded \cup Unguarded

(* A thread leaves its call *)
Exit(t, how) ==
    /\ th_pc' = [th_pc EXCEPT ![t] = "idle"]
    /\ th_exit' = [th_exit EXCEPT ![t] = how]

(* Leaving the `with face_recognition_lock` block of line 64 *)
Release(t, how) ==
    /\ face_recognition_lock' = "free"
    /\ Exit(t, how)

(* _process_frame, lines 60-62: cvtColor; ok is whether it succeeds *)
ProcessFrameCall(t, ok) ==
    /\ th_pc[t] = "idle"
    /\ IF ok
       THEN /\ th_pc' = [th_pc EXCEPT ![t] = "pf_acquire"]
            /\ th_exit' = [th_exit EXCEPT ![t] = "none"]
       ELSE Exit(t, "error")
    /\ UNCHANGED face_recognition_lock
    /\ UNCHANGED <<now, patrol_records, fmVars, detVars, geoVars,
                   runVars, loopVars, extVars>>

(* Line 64: with face_recognition_lock *)
Acquire(t) ==
    /\ th_pc[t] = "pf_acquire"
    /\ face_recognition_lock = "free"
    /\ face_recognition_lock' = t
    /\ th_pc' = [th_pc EXCEPT ![t] = "pf_locations"]
    /\ UNCHANGED th_exit
    /\ UNCHANGED <<now, patrol_records, fmVars, detVars, geoVars,
                   runVars, loopVars, extVars>>

(* Lines 66-68: face_locations; no face is an early return *)
PfLocations(t, found) ==
    /\ th_pc[t] = "pf_locations"
    /\ IF found
       THEN /\ th_pc' = [th_pc EXCEPT ![t] = "pf_encodings"]
            /\ UNCHANGED <<face_recognition_lock, th_exit>>
       ELSE Release(t, "no faces")
    /\ UNCHANGED <<now, patrol_records, fmVars, detVars, geoVars,
                   runVars, loopVars, extVars>>

(* Lines 71-73: face_encodings; no encoding is an early return *)
PfEncodings(t, found) ==
    /\ th_pc[t] = "pf_encodings"
    /\ IF found
       THEN /\ th_pc' = [th_pc EXCEPT ![t] = "pf_compare"]
            /\ UNCHANGED <<face_recognition_lock, th_exit>>
       ELSE Release(t, "no encodings")
    /\ UNCHANGED <<now, patrol_records, fmVars, detVars, geoVars,
                   runVars, loopVars, extVars>>

(* Lines 75-85: compare_faces *)
PfCompare(t, match) ==
    /\ th_pc[t] = "pf_compare"
    /\ IF match
       THEN /\ th_pc' = [th_pc EXCEPT ![t] = "pf_distance"]
            /\ UNCHANGED <<face_recognition_lock, th_exit>>
       ELSE Release(t, "no match")
    /\ UNCHANGED <<now, patrol_records, fmVars, detVars, geoVars,
                   runVars, loopVars, extVars>>

(* Lines 82-83: face_distance, return True *)
PfDistance(t) ==
    /\ th_pc[t] = "pf_distance"
    /\ Release(t, "match")
    /\ UNCHANGED <<now, patrol_records, fmVars, detVars, geoVars,
                   runVars, loopVars, extVars>>

(* An inference call raises inside the with block: the lock is released,   *)
(* lines 87-89 log and return                                              *)
PfRaises(t) ==
    /\ th_pc[t] \in Guarded
    /\ Release(t, "error")
    /\ UNCHANGED <<now, patrol_records, fmVars, detVars, geoVars,
                   runVars, loopVars, extVars>>

(* FaceMonitor._recognize_face, lines 122-125, called by a thread *)
RecognizeFaceCall(t) ==
    /\ th_pc[t] = "idle"
    /\ th_pc' = [th_pc EXCEPT ![t] = "rf_locations"]
    /\ th_exit' = [th_exit EXCEPT ![t] = "none"]
    /\ UNCHANGED face_recognition_lock
    /\ UNCHANGED <<now, patrol_records, fmVars, detVars, geoVars,
                   runVars, loopVars, extVars>>

(* Lines 125-127: face_locations; no face is an early return *)
RfLocations(t, found) ==
    /\ th_pc[t] = "rf_locations"
    /\ IF found
       THEN /\ th_pc' = [th_pc EXCEPT ![t] = "rf_encodings"]
            /\ UNCHANGED th_exit
       ELSE Exit(t, "no faces")
    /\ UNCHANGED face_recognition_lock
    /\ UNCHANGED <<now, patrol_records, fmVars, detVars, geoVars,
                   runVars, loopVars, extVars>>

(* Line 130: face_encodings *)
RfEncodings(t) ==
    /\ th_pc[t] = "rf_encodings"
    /\ th_pc' = [th_pc EXCEPT ![t] = "rf_compare"]
    /\ UNCHANGED <<face_recognition_lock, th_exit>>
    /\ UNCHANGED <<now, patrol_records, fmVars, detVars, geoVars,
                   runVars, loopVars, extVars>>

(* Lines 135-155: compare_faces for the faces, return *)
RfCompare(t, match) ==
    /\ th_pc[t] = "rf_compare"
    /\ Exit(t, IF match THEN "match" ELSE "no match")
    /\ UNCHANGED face_recognition_lock
    /\ UNCHANGED <<now, patrol_records, fmVars, detVars, geoVars,
                   runVars, loopVars, extVars>>

(* An inference call raises inside _recognize_face: it propagates *)
RfRaises(t) ==
    /\ th_pc[t] \in Unguarded
    /\ Exit(t, "raised")
    /\ UNCHANGED face_recognition_lock
    /\ UNCHANGED <<now, patrol_records, fmVars, detVars, geoVars,
                   runVars, loopVars, extVars>>

InitThreads ==
    /\ FMInit
    /\ known_guard_keys = <<>>
    /\ DetIdle
    /\ GeoIdle
    /\ RunIdle
    /\ LoopIdle
    /\ LockIdle
    /\ ExtIdle

NextThreads ==
    \/ \E t \in Threads, ok \in BOOLEAN : ProcessFrameCall(t, ok)
    \/ \E t \in Threads : Acquire(t)
    \/ \E t \in Threads, found \in BOOLEAN : PfLocations(t, found)
    \/ \E t \in Threads, found \in BOOLEAN : PfEncodings(t, found)
    \/ \E t \in Threads, match \in BOOLEAN : PfCompare(t, match)
    \/ \E t \in Threads : PfDistance(t)
    \/ \E t \in Threads : PfRaises(t)
    \/ \E t \in Threads : RecognizeFaceCall(t)
    \/ \E t \in Threads, found \in BOOLEAN : RfLocations(t, found)
    \/ \E t \in Threads : RfEncodings(t)
    \/ \E t \in Threads, match \in BOOLEAN : RfCompare(t, match)
    \/ \E t \in Threads : RfRaises(t)

SpecThreads == InitThreads /\ [][NextThreads]_vars

------------------------------------------------------------------------------
(* FACE_RECOGNITION_CONFIG: the two thresholds of the recognizer, applied  *)
(* to one probe                                                            *)

(* Largest face_distance of a probe, in tenths *)
MaxDistance == 12

(* 'max_face_distance': 0.6, in tenths *)
MaxFaceDistance == 6

InitThreshold ==
    /\ FMInit
    /\ known_guard_keys = <<>>
    /\ DetIdle
    /\ GeoIdle
    /\ RunIdle
    /\ LoopIdle
    /\ LockIdle
    /\ RsIdle
    /\ PpIdle
    /\ ExIdle
    /\ TsIdle
    /\ RpIdle
    /\ thr_probe \in [1..2 -> 0..MaxDistance]
    /\ thr_confident = "unset"
    /\ thr_close = "unset"

(* PatrolDetector._identify_guard: some row reaches min_confidence *)
ByConfidence ==
    /\ thr_confident = "unset"
    /\ thr_confident' =
           IF _identify_guard(thr_probe, <<"G1", "G2">>) # NoGuard
           THEN "accept" ELSE "reject"
    /\ UNCHANGED <<now, patrol_records, fmVars, detVars, geoVars, runVars,
                   loopVars, lockVars, rsVars, ppVars, exVars, tsVars, rpVars,
                   thr_probe, thr_close>>

(* The distance test with max_face_distance as the tolerance *)
ByDistance ==
    /\ thr_close = "unset"
    /\ thr_close' =
           IF \E i \in DOMAIN thr_probe :
                  compare_faces(thr_probe, MaxFaceDistance)[i]
           THEN "accept" ELSE "reject"
    /\ UNCHANGED <<now, patrol_records, fmVars, detVars, geoVars, runVars,
                   loopVars, lockVars, rsVars, ppVars, exVars, tsVars, rpVars,
                   thr_probe, thr_confident>>

NextThreshold ==
    \/ ByConfidence
    \/ ByDistance

SpecThreshold == InitThreshold /\ [][NextThreshold]_vars

------------------------------------------------------------------------------
(* FaceMonitor._load_guard_faces, row by row, and the index lookup of      *)
(* _recognize_face on the loaded roster                                    *)

MaxRows == 3

(* What the query of lines 35-48 can return: rows of the guards table,     *)
(* each with its guard_id; an encoding is named after the row's guard      *)
QueryRows == UNION {[1..n -> Guards] : n \in 0..MaxRows}

InitRoster ==
    /\ FMLocalsIdle
    /\ known_face_encodings = <<>>
    /\ known_guard_keys = <<>>
    /\ DetIdle
    /\ GeoIdle
    /\ RunIdle
    /\ LoopIdle
    /\ LockIdle
    /\ ThrIdle
    /\ PpIdle
    /\ ExIdle
    /\ TsIdle
    /\ RpIdle
    /\ rs_rows \in QueryRows
    /\ rs_next = 1
    /\ rs_lookup = NoLookup

(* Lines 50-61: known_face_encodings.append(face_feature);                 *)
(* known_guard_info[row['guard_id']] = {...}                               *)
LoadRow ==
    /\ rs_next \in DOMAIN rs_rows
    /\ known_face_encodings' = Append(known_face_encodings, rs_rows[rs_next])
    /\ known_guard_keys' = KeysOf(Append(known_guard_keys, rs_rows[rs_next]))
    /\ rs_next' = rs_next + 1
    /\ UNCHANGED <<now, patrol_records, last_recognition_time, pc, guard_id,
                   can_now, stamp, matched_faces, recognized, lastCall>>
    /\ UNCHANGED <<detVars, geoVars, runVars, loopVars, lockVars, thrVars,
                   ppVars, exVars, tsVars, rpVars, rs_rows, rs_lookup>>

(* Lines 137-146: guard_index = matches.index(True);                       *)
(* guard_id = list(self.known_guard_info.keys())[guard_index]              *)
Lookup(probe) ==
    /\ rs_next > Len(rs_rows)
    /\ LET matches == compare_faces(probe, FaceMatchTolerance)
       IN /\ \E i \in DOMAIN matches : matches[i]
          /\ LET guard_index == FirstTrue(matches)
             IN rs_lookup' =
                    [probe |-> probe,
                     index |-> guard_index,
                     owner |-> known_face_encodings[guard_index],
                     guard |-> IF guard_index \in DOMAIN known_guard_keys
                               THEN known_guard_keys[guard_index]
                               ELSE "IndexError"]
    /\ UNCHANGED <<now, patrol_records, fmVars, detVars, geoVars, runVars,
                   loopVars, lockVars, thrVars, ppVars, exVars, tsVars, rpVars,
                   rs_rows, rs_next>>

NextRoster ==
    \/ LoadRow
    \/ \E probe \in Probes(Len(known_face_encodings)) : Lookup(probe)

SpecRoster == InitRoster /\ [][NextRoster]_vars

------------------------------------------------------------------------------
(* PatrolPointManager.add_point                                            *)

MaxBand == 3
MaxPoints == 2

(* PATROL_POINT_CONFIG: a band min_radius..max_radius and a default radius *)
(* inside it                                                               *)
RadiusBands ==
    {b \in [min_radius : 1..MaxBand, max_radius : 1..MaxBand,
            default_radius : 1..MaxBand] :
        b.min_radius <= b.default_radius /\ b.default_radius <= b.max_radius}

(* The radius argument: None when not given, or a number *)
RadiusArgs == {None} \cup (0..(MaxBand + 1))

ClampRadius_NoFloor(radius, config) ==
    LET given == IF radius = None THEN config.default_radius ELSE radius
    IN Min(given, config.max_radius)

(* Lines 108-113: the default for None, then max(min_radius, min(radius,   *)
(* max_radius))                                                            *)
ClampRadius(radius, config) ==
    LET given == IF radius = None THEN config.default_radius ELSE radius
    IN Max(config.min_radius, Min(given, config.max_radius))

InitPoints ==
    /\ FMInit
    /\ known_guard_keys = <<>>
    /\ DetIdle
    /\ GeoIdle
    /\ RunIdle
    /\ LoopIdle
    /\ LockIdle
    /\ ThrIdle
    /\ RsIdle
    /\ ExIdle
    /\ TsIdle
    /\ RpIdle
    /\ pp_config \in RadiusBands
    /\ pp_table = <<>>
    /\ pp_points = {}
    /\ pp_last = NoAdd

(* add_point: the row is inserted and committed, then cached, and its      *)
(* lastrowid returned                                                      *)
AddPoint(radius) ==
    /\ Len(pp_table) < MaxPoints
    /\ LET stored == ClampRadius(radius, pp_config)
           point_id == Len(pp_table) + 1
       IN /\ pp_table' = Append(pp_table, stored)
          /\ pp_points' = pp_points \cup {[point_id |-> point_id, radius |-> stored]}
          /\ pp_last' = [n |-> pp_last.n + 1, radius |-> radius, result |-> point_id]
    /\ UNCHANGED <<now, patrol_records, fmVars, detVars, geoVars, runVars,
                   loopVars, lockVars, thrVars, rsVars, exVars, tsVars, rpVars,
                   pp_config>>

(* add_point, lines 120-122 raise (execute or commit): the except at line  *)
(* 139 logs and returns None                                               *)
AddPointInsertFails(radius) ==
    /\ pp_last.n < MaxPoints
    /\ pp_last' = [n |-> pp_last.n + 1, radius |-> radius, result |-> None]
    /\ UNCHANGED <<now, patrol_records, fmVars, detVars, geoVars, runVars,
                   loopVars, lockVars, thrVars, rsVars, exVars, tsVars, rpVars,
                   pp_config, pp_table, pp_points>>

(* with_db_connection cannot get a connection: it raises before add_point  *)
(* is entered                                                              *)
AddPointConnFails(radius) ==
    /\ pp_last.n < MaxPoints
    /\ pp_last' = [n |-> pp_last.n + 1, radius |-> radius, result |-> Raised]
    /\ UNCHANGED <<now, patrol_records, fmVars, detVars, geoVars, runVars,
                   loopVars, lockVars, thrVars, rsVars, exVars, tsVars, rpVars,
                   pp_config, pp_table, pp_points>>

NextPoints ==
    \/ \E radius \in RadiusArgs : AddPoint(radius)
    \/ \E radius \in RadiusArgs : AddPointInsertFails(radius)
    \/ \E radius \in RadiusArgs : AddPointConnFails(radius)

SpecPoints == InitPoints /\ [][NextPoints]_vars

------------------------------------------------------------------------------
(* FaceScreenshotExtractor.process_video                                   *)

MaxVideoFrames == 22

(* Line 25: self.screenshot_interval = 10, in seconds *)
ScreenshotInterval == 10

(* Video times are counted in 1/30 s, which frame_count / fps is a whole   *)
(* number of for every fps used here                                       *)
Resolution == 30

(* Line 162: current_time = frame_count / fps *)
VideoTime(count, rate) == (count * Resolution) \div rate

(* The clips: a path that does not open, or a file of `frames` frames that *)
(* reports that count or 0, at 1 or 2 frames per second or without a frame *)
(* rate; show_process is the caller's argument                             *)
Clips ==
    {NoClip} \cup
    {v \in [openable : {TRUE}, frames : {0, MaxVideoFrames},
            frame_count_prop : {0, MaxVideoFrames}, fps_prop : {0, 1, 2},
            show_process : BOOLEAN] :
        v.frame_count_prop \in {v.frames, 0}}

ExLeave(how) ==
    /\ ex_pc' = how
    /\ UNCHANGED <<ex_frame_count, last_screenshot_time, screenshot_paths,
                   ex_examined>>

(* Lines 134-155: load the target face, open the video, read its           *)
(* properties, reset the counters                                          *)
ExOpen(loaded) ==
    /\ ex_pc = "idle"
    /\ IF ~ loaded \/ ~ ex_video.openable
       THEN /\ ExLeave("raised")
            /\ UNCHANGED <<ex_total_frames, ex_fps>>
       ELSE /\ ex_total_frames' = ex_video.frame_count_prop
            /\ ex_fps' = IF ex_video.fps_prop = 0 THEN DefaultFps
                         ELSE ex_video.fps_prop
            /\ ex_frame_count' = 0
            /\ screenshot_paths' = <<>>
            /\ last_screenshot_time' = 0
            /\ ex_pc' = "loop"
            /\ UNCHANGED ex_examined
    /\ UNCHANGED <<now, patrol_records, fmVars, detVars, geoVars, runVars,
                   loopVars, lockVars, thrVars, rsVars, ppVars, tsVars, rpVars,
                   ex_video>>

Due_Early(current_time, last) ==
    current_time - last >= (ScreenshotInterval - 1) * Resolution

(* Line 165: current_time - self.last_screenshot_time >= screenshot_interval *)
Due(current_time, last) ==
    current_time - last >= ScreenshotInterval * Resolution

(* Lines 157-185, one iteration: read, examine the frame when it is due,   *)
(* save a screenshot when the target is in it, poll the key, count         *)
ExFrame(has_target, saved, key) ==
    /\ ex_pc = "loop"
    /\ IF ex_frame_count >= ex_video.frames
       THEN /\ ~ has_target /\ ~ saved /\ key = "none"
            /\ ExLeave("returned")
       ELSE LET current_time == VideoTime(ex_frame_count, ex_fps)
                due == Due(current_time, last_screenshot_time)
            IN /\ has_target => due
               /\ saved => has_target
               /\ key \in {"none", "q"}
               /\ key = "q" => ex_video.show_process
               /\ ex_examined' = IF due THEN ex_examined \cup {current_time}
                                 ELSE ex_examined
               /\ screenshot_paths' = IF saved
                                      THEN Append(screenshot_paths, current_time)
                                      ELSE screenshot_paths
               /\ last_screenshot_time' = IF saved THEN current_time
                                          ELSE last_screenshot_time
               /\ IF key = "q"
                  THEN /\ ex_pc' = "returned"
                       /\ UNCHANGED ex_frame_count
                  ELSE /\ ex_frame_count' = ex_frame_count + 1
                       /\ ex_pc' = IF /\ ex_frame_count' % ex_fps = 0
                                      /\ ex_total_frames = 0
                                   THEN "raised" ELSE "loop"
    /\ UNCHANGED <<now, patrol_records, fmVars, detVars, geoVars, runVars,
                   loopVars, lockVars, thrVars, rsVars, ppVars, tsVars, rpVars,
                   ex_video, ex_total_frames, ex_fps>>

InitExtract ==
    /\ FMInit
    /\ known_guard_keys = <<>>
    /\ DetIdle
    /\ GeoIdle
    /\ RunIdle
    /\ LoopIdle
    /\ LockIdle
    /\ ThrIdle
    /\ RsIdle
    /\ PpIdle
    /\ TsIdle
    /\ RpIdle
    /\ ExLocalsIdle
    /\ ex_video \in Clips

NextExtract ==
    \/ \E loaded \in BOOLEAN : ExOpen(loaded)
    \/ \E has_target, saved \in BOOLEAN, key \in Keys :
           ExFrame(has_target, saved, key)

SpecExtract == InitExtract /\ [][NextExtract]_vars

------------------------------------------------------------------------------
(* PatrolDetectionTester: the reader, the processor and the display loop   *)
(* of run(), once the two threads are started                              *)

MaxTesterFrames == 2

(* The state at line 152: is_running set, both threads at their loop head  *)
InitTester ==
    /\ FMInit
    /\ known_guard_keys = <<>>
    /\ DetIdle
    /\ GeoIdle
    /\ RunIdle
    /\ LockIdle
    /\ ThrIdle
    /\ RsIdle
    /\ PpIdle
    /\ ExIdle
    /\ RpIdle
    /\ source_frames \in 0..MaxTesterFrames
    /\ vp_pos = 0
    /\ vp_returned = None
    /\ vp_wrapped = FALSE
    /\ vp_calls = 0
    /\ is_running = TRUE
    /\ rd_pc = "loop"
    /\ rd_pos = 0
    /\ rd_last = None
    /\ rd_failed = FALSE
    /\ rd_reads = 0
    /\ frame_queue = <<>>
    /\ result_queue = <<>>
    /\ pr_pc = "loop"
    /\ pr_frame = None
    /\ main_pc = "loop"
    /\ ts_raced = FALSE

(* _read_frames: a pass of the reading loop, as often as the thread runs *)
TsReadFrames ==
    /\ ReadPass
    /\ UNCHANGED rd_reads

(* _process_frames, lines 202-204: frame = self.frame_queue.get(timeout=0.1); *)
(* on queue.Empty the loop head is reached again                              *)
PrGet ==
    /\ pr_pc = "loop"
    /\ is_running
    /\ frame_queue # <<>>
    /\ pr_frame' = Head(frame_queue)
    /\ frame_queue' = Tail(frame_queue)
    /\ pr_pc' = "detect"
    /\ UNCHANGED <<source_frames, vp_pos, vp_returned, vp_wrapped, vp_calls,
                   is_running, rd_pc, rd_pos, rd_last, rd_failed, rd_reads>>
    /\ UNCHANGED <<now, patrol_records, fmVars, detVars, geoVars, runVars,
                   lockVars, thrVars, rsVars, ppVars, exVars, rpVars, result_queue,
                   main_pc, ts_raced>>

PrEnds_Blocking ==
    /\ pr_pc = "loop"
    /\ ~ is_running
    /\ frame_queue # <<>>
    /\ pr_pc' = "done"
    /\ UNCHANGED <<now, patrol_records, fmVars, detVars, geoVars, runVars,
                   loopVars, lockVars, thrVars, rsVars, ppVars, exVars, rpVars,
                   result_queue, pr_frame, main_pc, ts_raced>>

(* _process_frames, line 202: is_running is False, the thread ends *)
PrEnds ==
    /\ pr_pc = "loop"
    /\ ~ is_running
    /\ pr_pc' = "done"
    /\ UNCHANGED <<now, patrol_records, fmVars, detVars, geoVars, runVars,
                   loopVars, lockVars, thrVars, rsVars, ppVars, exVars, rpVars,
                   result_queue, pr_frame, main_pc, ts_raced>>

(* Line 205: results = self.detector.detect_frame(frame); an exception is  *)
(* logged at line 217 and the loop head is reached again                   *)
PrDetect(ok) ==
    /\ pr_pc = "detect"
    /\ IF ok
       THEN /\ pr_pc' = "drain"
            /\ UNCHANGED pr_frame
       ELSE /\ pr_pc' = "loop"
            /\ pr_frame' = None
    /\ UNCHANGED <<now, patrol_records, fmVars, detVars, geoVars, runVars,
                   loopVars, lockVars, thrVars, rsVars, ppVars, exVars, rpVars,
                   result_queue, main_pc, ts_raced>>

PrDrainCheck_Skip ==
    /\ pr_pc = "drain"
    /\ pr_pc' = "put"
    /\ UNCHANGED <<now, patrol_records, fmVars, detVars, geoVars, runVars,
                   loopVars, lockVars, thrVars, rsVars, ppVars, exVars, rpVars,
                   result_queue, pr_frame, main_pc, ts_raced>>

(* Line 208: while not self.result_queue.empty() *)
PrDrainCheck ==
    /\ pr_pc = "drain"
    /\ pr_pc' = IF result_queue # <<>> THEN "drain_get" ELSE "put"
    /\ UNCHANGED <<now, patrol_records, fmVars, detVars, geoVars, runVars,
                   loopVars, lockVars, thrVars, rsVars, ppVars, exVars, rpVars,
                   result_queue, pr_frame, main_pc, ts_raced>>

(* Lines 209-212: self.result_queue.get_nowait(); queue.Empty breaks *)
PrDrainGet ==
    /\ pr_pc = "drain_get"
    /\ IF result_queue # <<>>
       THEN /\ result_queue' = Tail(result_queue)
            /\ pr_pc' = "drain"
            /\ ts_raced' = (ts_raced \/ (main_pc = "get" /\ result_queue' = <<>>))
       ELSE /\ pr_pc' = "put"
            /\ UNCHANGED <<result_queue, ts_raced>>
    /\ UNCHANGED <<now, patrol_records, fmVars, detVars, geoVars, runVars,
                   loopVars, lockVars, thrVars, rsVars, ppVars, exVars, rpVars,
                   pr_frame, main_pc>>

(* Line 214: self.result_queue.put((frame, results)), which waits while    *)
(* the queue is full                                                       *)
PrPut ==
    /\ pr_pc = "put"
    /\ Len(result_queue) < MaxQueue
    /\ result_queue' = Append(result_queue, pr_frame)
    /\ pr_frame' = None
    /\ pr_pc' = "loop"
    /\ UNCHANGED <<now, patrol_records, fmVars, detVars, geoVars, runVars,
                   loopVars, lockVars, thrVars, rsVars, ppVars, exVars, rpVars,
                   main_pc, ts_raced>>

(* run, lines 154-155: while self.is_running: if not result_queue.empty() *)
MainCheck ==
    /\ main_pc = "loop"
    /\ IF ~ is_running THEN main_pc' = "join"
       ELSE /\ result_queue # <<>>
            /\ main_pc' = "get"
    /\ UNCHANGED <<now, patrol_records, fmVars, detVars, geoVars, runVars,
                   loopVars, lockVars, thrVars, rsVars, ppVars, exVars, rpVars,
                   result_queue, pr_pc, pr_frame, ts_raced>>

(* Line 156: frame, results = self.result_queue.get(), which waits while   *)
(* the queue is empty                                                      *)
MainGet ==
    /\ main_pc = "get"
    /\ result_queue # <<>>
    /\ result_queue' = Tail(result_queue)
    /\ main_pc' = "show"
    /\ UNCHANGED <<now, patrol_records, fmVars, detVars, geoVars, runVars,
                   loopVars, lockVars, thrVars, rsVars, ppVars, exVars, rpVars,
                   pr_pc, pr_frame, ts_raced>>

(* Lines 157-164: draw, imshow, waitKey; q clears is_running and breaks *)
MainShow(key) ==
    /\ main_pc = "show"
    /\ IF key = "q"
       THEN /\ is_running' = FALSE
            /\ main_pc' = "join"
       ELSE /\ main_pc' = "loop"
            /\ UNCHANGED is_running
    /\ UNCHANGED <<source_frames, vp_pos, vp_returned, vp_wrapped, vp_calls,
                   rd_pc, rd_pos, rd_last, rd_failed, rd_reads, frame_queue>>
    /\ UNCHANGED <<now, patrol_records, fmVars, detVars, geoVars, runVars,
                   lockVars, thrVars, rsVars, ppVars, exVars, rpVars, result_queue,
                   pr_pc, pr_frame, ts_raced>>

(* Lines 165-166: KeyboardInterrupt inside the try *)
MainInterrupt ==
    /\ main_pc \in {"loop", "get", "show"}
    /\ is_running' = FALSE
    /\ main_pc' = "join"
    /\ UNCHANGED <<source_frames, vp_pos, vp_returned, vp_wrapped, vp_calls,
                   rd_pc, rd_pos, rd_last, rd_failed, rd_reads, frame_queue>>
    /\ UNCHANGED <<now, patrol_records, fmVars, detVars, geoVars, runVars,
                   lockVars, thrVars, rsVars, ppVars, exVars, rpVars, result_queue,
                   pr_pc, pr_frame, ts_raced>>

(* Lines 169-173: both joins return, the source is released *)
MainJoin ==
    /\ main_pc = "join"
    /\ rd_pc = "done"
    /\ pr_pc = "done"
    /\ main_pc' = "returned"
    /\ UNCHANGED <<now, patrol_records, fmVars, detVars, geoVars, runVars,
                   loopVars, lockVars, thrVars, rsVars, ppVars, exVars, rpVars,
                   result_queue, pr_pc, pr_frame, ts_raced>>

ProcessorNext ==
    \/ PrGet
    \/ PrEnds
    \/ \E ok \in BOOLEAN : PrDetect(ok)
    \/ PrDrainCheck
    \/ PrDrainGet
    \/ PrPut

NextTester ==
    \/ TsReadFrames
    \/ ReadFramesEnds
    \/ ProcessorNext
    \/ MainCheck
    \/ MainGet
    \/ \E key \in {"none", "q"} : MainShow(key)
    \/ MainInterrupt
    \/ MainJoin

SpecTester == InitTester /\ [][NextTester]_vars

(* Fair scheduling: a thread that can take a step is run; a get() that is  *)
(* waiting is served when results keep arriving. Keys and interrupts are   *)
(* the user's and under no fairness.                                       *)
SpecTesterFair ==
    /\ SpecTester
    /\ WF_vars(ReadFramesEnds)
    /\ WF_vars(ProcessorNext)
    /\ WF_vars(MainCheck)
    /\ SF_vars(MainGet)
    /\ WF_vars(\E key \in {"none", "q"} : MainShow(key))
    /\ WF_vars(MainJoin)

------------------------------------------------------------------------------
(* start_video_file_monitor on one frame sequence, once without a display  *)
(* and once with a display and no key pressed                              *)

MaxReplay == 3

ReplaySequences == UNION {[1..n -> VideoFrames] : n \in 1..MaxReplay}

InitReplay ==
    /\ FMInit
    /\ known_guard_keys = <<"G1", "G2">>
    /\ DetIdle
    /\ GeoIdle
    /\ RunIdle
    /\ LoopIdle
    /\ LockIdle
    /\ ThrIdle
    /\ RsIdle
    /\ PpIdle
    /\ ExIdle
    /\ TsIdle
    /\ RpLocalsIdle
    /\ rp_frames \in ReplaySequences

RECURSIVE RecordAll(_, _, _, _)
(* Lines 340-341 with _record_patrol, lines 86-105, for each matched face: *)
(* the cooldown state and the rows after the loop, the write succeeding    *)
RecordAll(matched, t, frame_no, state) ==
    IF matched = <<>> THEN state
    ELSE LET g == Head(matched)
             accepted == IsKnownGuard(g) /\ _can_record_patrol(g, t, state.last)
         IN RecordAll(Tail(matched), t, frame_no,
                      IF accepted
                      THEN [last |-> [state.last EXCEPT ![g] = t],
                            events |-> state.events \cup
                                       {[guard_id |-> g, frame |-> frame_no]}]
                      ELSE state)

(* Lines 319-343 (and 344-393 with a display, no key): one iteration of    *)
(* the loop of a profile's run, at the current wall-clock time             *)
ReplayFrame(p) ==
    /\ rp_count[p] < Len(rp_frames)
    /\ LET frame_no == rp_count[p] + 1
           rec == RecognizeFace(rp_frames[frame_no], known_guard_keys)
           after == RecordAll(MatchedOf(rec), now, frame_no,
                              [last |-> rp_last[p], events |-> rp_events[p]])
       IN /\ rp_count' = [rp_count EXCEPT ![p] = frame_no]
          /\ rp_last' = [rp_last EXCEPT ![p] = after.last]
          /\ rp_events' = [rp_events EXCEPT ![p] = after.events]
          /\ rp_at' = [rp_at EXCEPT ![p] = Append(rp_at[p], now)]
    /\ UNCHANGED <<now, patrol_records, fmVars, detVars, geoVars, runVars,
                   loopVars, lockVars, thrVars, rsVars, ppVars, exVars, tsVars,
                   rp_frames>>

NextReplay ==
    \/ Tick
    \/ \E p \in Profiles : ReplayFrame(p)

SpecReplay == InitReplay /\ [][NextReplay]_vars

------------------------------------------------------------------------------
(* Claims about _record_patrol *)

(* Rows written by FaceMonitor._record_patrol carry no point_id *)
MonitorRows == {r \in patrol_records : r.point_id = NoPoint}

Apart(r1, r2) ==
    \/ r1.arrival_time - r2.arrival_time >= RecognitionCooldown
    \/ r2.arrival_time - r1.arrival_time >= RecognitionCooldown

(* C1: for a single caller of _record_patrol, any two arrival records of   *)
(* the same guard_id are at least recognition_cooldown apart; the cooldown *)
(* is per identity.                                                        *)
C1_CooldownPerIdentity ==
    \A r1 \in MonitorRows, r2 \in MonitorRows :
        (r1 # r2 /\ r1.guard_id = r2.guard_id) => Apart(r1, r2)

(* Two records of one guard, and a record of another guard in between *)
C1_Witness ==
    \E r1 \in MonitorRows, r2 \in MonitorRows, r3 \in MonitorRows :
        /\ r1.guard_id = r2.guard_id
        /\ r3.guard_id # r1.guard_id
        /\ r1.arrival_time < r3.arrival_time
        /\ r3.arrival_time < r2.arrival_time

(* C2: a call for g whose cooldown check reads now - last[g] < W is        *)
(* suppressed (nothing written, last[g] unchanged); a call with            *)
(* now - last[g] >= W (or no last[g]) is not suppressed: it is recorded    *)
(* when the insert succeeds.                                               *)
C2_WindowBoundExclusive ==
    LET g == lastCall.guard
        rows == {r \in MonitorRows : r.guard_id = g}
    IN /\ lastCall.outcome = "suppressed" =>
             /\ lastCall.prev # None
             /\ lastCall.check - lastCall.prev < RecognitionCooldown
             /\ last_recognition_time[g] = lastCall.prev
             /\ \A r \in rows : r.arrival_time <= lastCall.prev
       /\ lastCall.outcome \in {"recorded", "failed"} =>
             \/ lastCall.prev = None
             \/ lastCall.check - lastCall.prev >= RecognitionCooldown
       /\ lastCall.outcome = "recorded" =>
             /\ last_recognition_time[g] >= lastCall.check
             /\ \E r \in rows : r.arrival_time = last_recognition_time[g]

(* A call suppressed at t + W - 1, and two records exactly W apart *)
C2_Witness ==
    /\ lastCall.outcome = "suppressed"
    /\ lastCall.check = lastCall.prev + RecognitionCooldown - 1
    /\ \E r1 \in MonitorRows, r2 \in MonitorRows :
          /\ r1.guard_id = r2.guard_id
          /\ r2.arrival_time = r1.arrival_time + RecognitionCooldown

(* C3: with concurrent workers, at most one arrival record is written for  *)
(* an identity within one cooldown window.                                 *)
C3_OneRecordPerWindow ==
    \A g \in Guards : \A t \in 0..MaxTime :
        Cardinality({r \in MonitorRows :
                        /\ r.guard_id = g
                        /\ r.arrival_time >= t
                        /\ r.arrival_time < t + RecognitionCooldown}) <= 1

(* C10: a call with an id outside the roster returns without writing a row *)
(* and without touching last_recognition_time.                             *)
C10_UnknownIdSuppressed ==
    [][\A w \in Workers :
          (/\ pc[w] = "call"
           /\ pc'[w] # "call"
           /\ \A i \in 1..Len(known_guard_keys) : known_guard_keys[i] # guard_id[w])
          => /\ patrol_records' = patrol_records
             /\ last_recognition_time' = last_recognition_time
             /\ pc'[w] \in {"idle", "loop"}
             /\ lastCall'.outcome = "unknown"]_vars

(* An unknown id was rejected while a roster member has a record *)
C10_Witness ==
    /\ lastCall.outcome = "unknown"
    /\ lastCall.guard = UnknownGuard
    /\ patrol_records # {}
    /\ last_recognition_time[UnknownGuard] = None

------------------------------------------------------------------------------
(* Claims about FaceMonitor._recognize_face *)

(* C5: when one roster identity is strictly nearest to the probe and       *)
(* within the bound, the match is that identity, whatever the roster order *)
C5_NearestNeighbour ==
    \A k \in 1..Len(recognized) :
        LET probe == recognized[k].probe
        IN \A i \in DOMAIN probe :
              (/\ probe[i] <= FaceMatchTolerance
               /\ \A j \in DOMAIN probe : j # i => probe[j] > probe[i])
              => recognized[k].guard = known_guard_keys[i]

WithinBound(probe) == \E i \in DOMAIN probe : probe[i] <= FaceMatchTolerance

(* C6: a face farther than the tolerance from every roster encoding is     *)
(* unmatched, and the loop has one pending _record_patrol call per face    *)
(* within the tolerance and none for the others.                           *)
C6_NoMatchBeyondTolerance ==
    /\ \A k \in 1..Len(recognized) :
          ~ WithinBound(recognized[k].probe) => recognized[k].guard = NoGuard
    /\ (pc[Caller] = "loop" /\ recognized # <<>>) =>
          Len(matched_faces) =
              Cardinality({k \in 1..Len(recognized) : WithinBound(recognized[k].probe)})
    /\ \A w \in Workers : pc[w] = "idle" => guard_id[w] = NoGuard

(* C6, PatrolDetector side: a guard is identified, and a record call made, *)
(* only for a face whose similarity to some guards row reaches             *)
(* min_confidence                                                          *)
C6_DetectorNoMatch ==
    [][/\ det_pc' = "zone" =>
            \E i \in DOMAIN face'.probe :
                Similarity(face'.probe[i]) >= MinConfidence
       /\ det_pc # "zone" => patrol_records' = patrol_records]_vars

(* A face beyond the tolerance of both roster encodings was left unmatched *)
C6_Witness ==
    /\ Len(known_face_encodings) = 2
    /\ pc[Caller] = "loop"
    /\ \E k \in 1..Len(recognized) :
          /\ \A i \in DOMAIN recognized[k].probe :
                recognized[k].probe[i] > FaceMatchTolerance
          /\ recognized[k].guard = NoGuard
    /\ matched_faces = <<>>

------------------------------------------------------------------------------
(* Claims about PatrolDetector *)

(* Rows written by PatrolPointManager.add_patrol_record carry a point_id *)
DetectorRows == {r \in patrol_records : r.point_id # NoPoint}

(* C4: a guard matched inside one zone in two frames of the same cooldown  *)
(* window yields one arrival record for that (guard, zone), not one per    *)
(* frame.                                                                  *)
C4_OneRecordPerGuardZoneWindow ==
    \A r1 \in DetectorRows, r2 \in DetectorRows :
        (r1 # r2 /\ r1.guard_id = r2.guard_id /\ r1.point_id = r2.point_id)
        => Apart(r1, r2)

SquaredDistance(position, point) ==
    (position[1] - point.coord_x) * (position[1] - point.coord_x)
    + (position[2] - point.coord_y) * (position[2] - point.coord_y)

(* C7: a zone is reported iff the squared distance from the point to its   *)
(* centre is at most the squared radius (the boundary is inside).          *)
C7_BoundaryInclusive ==
    geo_result # "unset" =>
        (geo_result = "in" <=> SquaredDistance(geo_position, geo_point)
                                  <= geo_point.radius * geo_point.radius)

(* A zone whose centre is exactly radius away, off both axes, is reported *)
C7_Witness ==
    /\ geo_result = "in"
    /\ geo_point.radius > 0
    /\ geo_position[1] # geo_point.coord_x
    /\ geo_position[2] # geo_point.coord_y
    /\ SquaredDistance(geo_position, geo_point) = geo_point.radius * geo_point.radius

(* C8: detect_frame returns every zone containing a matched guard's point, *)
(* no other zone, and makes one add_patrol_record call per such zone.      *)
C8_AllContainingZonesReported ==
    (det_pc = "idle" /\ returned # NotReturned) =>
        /\ returned = expected
        /\ calls = expected

(* C9: the point tested against the zones is the midpoint of the face's    *)
(* region in frame coordinates, ((left+right)/2, (top+bottom)/2).          *)
C9_CenterIsRegionMidpoint ==
    det_pc = "zone" =>
        face_center = <<(face.left + face.right) \div 2,
                        (face.top + face.bottom) \div 2>>

------------------------------------------------------------------------------
(* Claims about failures, and about the control loop of                    *)
(* start_video_file_monitor                                                *)

(* C11: a failure of the persistence write never leaves the record         *)
(* operation: every add_patrol_record call returns to detect_frame, which  *)
(* appends the pair to its results and stays in its loop over the points.  *)
C11_RecordCallReturns ==
    [][Len(calls') = Len(calls) + 1 =>
          /\ det_pc' = "zone"
          /\ results' = Append(results, calls'[Len(calls')])]_vars

(* C11, FaceMonitor side: when execute_update fails inside _record_patrol  *)
(* the call returns, nothing is raised and the loop keeps running          *)
C11_MonitorWriteAbsorbed ==
    [][(pc[Caller] = "write" /\ lastCall'.outcome = "failed") =>
          /\ run_pc' = "frame"
          /\ raised' = "none"
          /\ pc'[Caller] \in {"loop", "idle"}]_vars

(* C12: while the video-file pipeline is paused no frame is read and no    *)
(* detection, matching or record call occurs: frame_count, the source      *)
(* position, the cooldown state and the written records stay as they are,  *)
(* and what is displayed is the last rendered frame.                       *)
C12_PausedIsInert ==
    [][is_paused =>
          /\ frame_count' = frame_count
          /\ pos_frames' = pos_frames
          /\ reads' = reads
          /\ last_recognition_time' = last_recognition_time
          /\ patrol_records' = patrol_records
          /\ recognized' = recognized
          /\ matched_faces' = matched_faces
          /\ pc' = pc
          /\ shown' = last_frame]_vars

(* Paused after a frame with a recorded guard, frames still left to read,  *)
(* the paused branch has run and time has passed since the record          *)
C12_Witness ==
    /\ is_paused
    /\ run_pc = "loop"
    /\ pos_frames < video.frames
    /\ shown = last_frame
    /\ last_frame # None
    /\ \E r \in patrol_records : r.arrival_time < now

(* A step of the running loop that moves the source position or            *)
(* frame_count without reading a frame: a seek                             *)
SeekStep ==
    /\ run_pc # "idle"
    /\ reads' = reads
    /\ pos_frames' # pos_frames \/ frame_count' # frame_count

(* C13: after any seek-back or seek-forward the source position is within  *)
(* [0, total_frames), for every total_frames and fps the source reports.   *)
C13_SeekStaysInBounds ==
    [][SeekStep => (0 <= pos_frames' /\ pos_frames' < total_frames)]_vars

(* C13 for a source whose reported frame count is its number of frames *)
C13_SeekStaysInBoundsOfCountedFile ==
    [][(SeekStep /\ total_frames = video.frames) =>
          /\ 0 <= pos_frames' /\ pos_frames' < total_frames
          /\ frame_count' = pos_frames']_vars

(* C14: a seek changes only the source position, frame_count and           *)
(* next_log_frame; the pause flag, the cooldown state, the roster and the  *)
(* written records stay as they are, and it happens only in interactive    *)
(* mode while running, never while paused.                                 *)
C14_SeekChangesOnlyPosition ==
    [][SeekStep =>
          /\ enable_gui = "True"
          /\ ~ is_paused /\ ~ is_paused'
          /\ run_pc = "frame" /\ run_pc' = "loop"
          /\ last_recognition_time' = last_recognition_time
          /\ known_guard_keys' = known_guard_keys
          /\ known_face_encodings' = known_face_encodings
          /\ patrol_records' = patrol_records
          /\ raised' = raised /\ cap' = cap]_vars

(* The loop is running right after a seek that was not clamped: the        *)
(* position is not the one after the frame read last, records exist        *)
C14_Witness ==
    /\ run_pc = "loop"
    /\ ~ is_paused
    /\ total_frames = video.frames
    /\ reads.last # None
    /\ pos_frames # reads.last + 1
    /\ pos_frames > 0 /\ pos_frames < total_frames - 1
    /\ frame_count = pos_frames
    /\ patrol_records # {}

Stopped == run_pc \in {"returned", "raised"}

(* C15: in headless mode a file of N frames is read to its end, each frame *)
(* exactly once and in source order, before the pipeline stops.            *)
C15_HeadlessReadsEveryFrame ==
    (Stopped /\ enable_gui = "False") =>
        /\ reads.n = video.frames
        /\ reads.ordered

(* C15, second half: once stopped, by quit, end of stream or an exception, *)
(* no further frame is read and no further record is written               *)
C15_StoppedIsFinal ==
    [][Stopped =>
          /\ reads' = reads
          /\ patrol_records' = patrol_records
          /\ run_pc' = run_pc]_vars

(* C17: on every exit path the source handle is released and the window    *)
(* closed before control returns, and the exception the caller sees is the *)
(* failure that ended the run.                                             *)
C17_ReleasedAndOriginalFailure ==
    [][(run_pc = "finally" /\ Stopped') =>
          /\ cap' = "released"
          /\ ~ window'
          /\ raised' = raised]_vars

(* C17, the release alone: whatever ended the run, the handle is released  *)
(* and no window is left open                                              *)
C17_HandleReleased ==
    Stopped => (cap = "released" /\ ~ window)

(* C18: when the file cannot be opened the loop is never entered: the      *)
(* start operation raises, no frame is read, no detection runs and no      *)
(* record is written.                                                      *)
C18_UnopenableSourceIsFatal ==
    ~ video.openable =>
        /\ run_pc \in {"idle", "finally", "raised"}
        /\ run_pc # "idle" => raised # "none"
        /\ reads = NoReads
        /\ pc[Caller] = "idle" /\ recognized = <<>> /\ lastCall = NoCall
        /\ patrol_records = {}

(* The start operation has raised for a path that does not open *)
C18_Witness ==
    /\ ~ video.openable
    /\ run_pc = "raised"
    /\ raised # "none"
    /\ cap = "released"

(* C19: a detection or model failure on one frame never aborts the         *)
(* pipeline; only a startup failure is raised out of it.                   *)
C19_DetectionFailureAbsorbed ==
    run_pc = "raised" => raised # "recognition error"

C20_InferenceMutex ==
    /\ Cardinality({t \in Threads : th_pc[t] \in Inference}) <= 1
    /\ \A t \in Threads : th_pc[t] \in Inference => face_recognition_lock = t
    /\ \A t \in Threads : face_recognition_lock = t => th_pc[t] \in Inference

(* C20 for _process_frame alone: its inference calls hold the lock, one    *)
(* thread at a time, and every exit (return, early return, exception)      *)
(* leaves the lock free                                                    *)
C20_ExtractorSerialized ==
    /\ Cardinality({t \in Threads : th_pc[t] \in Guarded}) <= 1
    /\ \A t \in Threads : th_pc[t] \in Guarded <=> face_recognition_lock = t

------------------------------------------------------------------------------
(* Claims about the cooldown state after a failed write, and about the     *)
(* state of the video-file loop                                            *)

(* C24: when the write of an accepted record call fails, the cooldown      *)
(* state of the identity keeps its previous value and nothing is written;  *)
(* a later call for the identity is suppressed only by a write that        *)
(* succeeded: the time it is measured against is the arrival time of a     *)
(* written row.                                                            *)
C24_FailedWriteKeepsCooldown ==
    [][/\ (pc[Caller] = "write" /\ lastCall'.outcome = "failed") =>
             /\ last_recognition_time' = last_recognition_time
             /\ patrol_records' = patrol_records
       /\ (pc[Caller] = "call" /\ lastCall'.outcome = "suppressed") =>
             \E r \in patrol_records :
                 /\ r.guard_id = lastCall'.guard
                 /\ r.arrival_time = lastCall'.prev]_vars

(* An accepted call, made a full window after the identity's last record,  *)
(* has failed in its write: the cooldown state is still that record's time *)
C24_Witness ==
    /\ lastCall.outcome = "failed"
    /\ lastCall.prev # None
    /\ lastCall.check - lastCall.prev >= RecognitionCooldown
    /\ last_recognition_time[lastCall.guard] = lastCall.prev

(* C26: at the head of every iteration of the video-file loop frame_count  *)
(* equals the current frame position of the source, after any interleaving *)
(* of reads, pause toggles and seeks.                                      *)
C26_FrameCountIsPosition ==
    run_pc = "loop" => frame_count = pos_frames

(* C26 for a source whose reported frame count is its number of frames *)
C26_CountedFile ==
    (run_pc = "loop" /\ total_frames = video.frames) => frame_count = pos_frames

(* C27: is_paused implies that the display is enabled and that last_frame  *)
(* holds a rendered frame; whenever the paused branch has shown something  *)
(* it is that frame.                                                       *)
C27_PausedHasFrame ==
    is_paused =>
        /\ enable_gui = "True"
        /\ last_frame # None
        /\ shown # None

(* Paused on the first frame of a file, the paused branch polling keys *)
C27_Witness ==
    /\ is_paused
    /\ run_pc = "loop"
    /\ enable_gui = "True"
    /\ reads.n = 1
    /\ last_frame = 0
    /\ shown = 0

------------------------------------------------------------------------------
(* Claims about the recognizer's thresholds                                *)

(* C22: the accept/reject threshold is one value expressed two ways: the   *)
(* minimum confidence is 1 minus the maximum face distance, and every      *)
(* probe is accepted by the confidence test iff it is accepted by the      *)
(* distance test.                                                          *)
C22_OneThreshold ==
    (thr_confident # "unset" /\ thr_close # "unset") =>
        thr_confident = thr_close

------------------------------------------------------------------------------
(* Claims about the loaded roster                                          *)

(* C25: after roster load known_face_encodings and the keys of             *)
(* known_guard_info have equal length and the i-th encoding is the         *)
(* embedding of the guard whose id is the i-th key, so the guard id that a *)
(* matching encoding index resolves to is the owner of that encoding, for  *)
(* every roster the query can return.                                      *)
C25_EncodingsAlignedWithKeys ==
    /\ rs_next > Len(rs_rows) =>
           /\ Len(known_face_encodings) = Len(known_guard_keys)
           /\ \A i \in DOMAIN known_face_encodings :
                  known_guard_keys[i] = known_face_encodings[i]
    /\ rs_lookup # NoLookup => rs_lookup.guard = rs_lookup.owner

(* C25 for a roster without a repeated guard_id *)
C25_DistinctRosterAligned ==
    (\A i, j \in DOMAIN rs_rows : rs_rows[i] = rs_rows[j] => i = j) =>
        C25_EncodingsAlignedWithKeys

(* C25, the lookup alone: a matching index resolves to the owner *)
C25_LookupResolvesOwner ==
    rs_lookup # NoLookup => rs_lookup.guard = rs_lookup.owner

------------------------------------------------------------------------------
(* Claims about add_point                                                  *)

(* The radius the band prescribes for an argument *)
Banded(radius, config) ==
    IF radius = None THEN config.default_radius
    ELSE IF radius < config.min_radius THEN config.min_radius
    ELSE IF radius > config.max_radius THEN config.max_radius
    ELSE radius

------------------------------------------------------------------------------
(* Claims about process_video                                              *)

(* C30: a frame is examined only when its video time is at least           *)
(* screenshot_interval seconds after last_screenshot_time, which starts at *)
(* 0 and advances only when a screenshot is saved: any two saved           *)
(* screenshots are at least screenshot_interval seconds of video time      *)
(* apart, and no frame of the first screenshot_interval seconds is         *)
(* examined.                                                               *)
C30_ScreenshotsSpaced ==
    [][/\ \A t \in ex_examined' \ ex_examined :
              /\ t = VideoTime(ex_frame_count, ex_fps)
              /\ t - last_screenshot_time >= ScreenshotInterval * Resolution
              /\ t >= ScreenshotInterval * Resolution
       /\ last_screenshot_time' # last_screenshot_time =>
              /\ Len(screenshot_paths') = Len(screenshot_paths) + 1
              /\ last_screenshot_time' = screenshot_paths'[Len(screenshot_paths')]
              /\ last_screenshot_time' \in ex_examined'
       /\ \A i, j \in DOMAIN screenshot_paths' :
              i < j => screenshot_paths'[j] - screenshot_paths'[i]
                           >= ScreenshotInterval * Resolution]_vars

(* Two screenshots saved, frames examined without one in between, and the  *)
(* file read to its end                                                    *)
C30_Witness ==
    /\ ex_pc = "returned"
    /\ Len(screenshot_paths) = 2
    /\ Cardinality(ex_examined) > 2
    /\ ex_frame_count = ex_video.frames

------------------------------------------------------------------------------
(* Claims about the threaded tester                                        *)

(* C28: under every interleaving of the reader, the processor and the      *)
(* display loop the result queue holds at most one item, the frame queue   *)
(* never more than its maxsize, and the processor's put on the result      *)
(* queue finds room: it is made on the queue the processor has just        *)
(* drained.                                                                *)
C28_QueuesBounded ==
    /\ Len(result_queue) <= 1
    /\ Len(frame_queue) <= MaxQueue
    /\ pr_pc = "put" => result_queue = <<>>

(* Both queues in use at once: the frame queue full, a result waiting and  *)
(* the processor about to put the next one after draining                  *)
C28_Witness ==
    /\ Len(frame_queue) = MaxQueue
    /\ pr_pc = "drain_get"
    /\ Len(result_queue) = 1
    /\ main_pc = "get"

C29_DrainedIsRefilled ==
    (main_pc = "get" /\ result_queue = <<>>) =>
        pr_pc \in {"drain", "drain_get", "put"}

------------------------------------------------------------------------------
(* Claims about replaying a frame sequence                                 *)

Replayed(p) == rp_count[p] = Len(rp_frames)

(* C21: the same frame sequence replayed through the headless profile and  *)
(* through the interactive profile with no control input, under the same   *)
(* cooldown and threshold, gives the same set of records: the same         *)
(* identities from the same frames of origin, whatever the wall-clock      *)
(* times at which the frames were processed.                               *)
C21_ProfilesAgree ==
    (\A p \in Profiles : Replayed(p)) =>
        rp_events["headless"] = rp_events["interactive"]

(* C21 for two runs that processed every frame at the same time of their   *)
(* clock                                                                   *)
C21_SameTimesSameEvents ==
    ((\A p \in Profiles : Replayed(p)) /\ rp_at["headless"] = rp_at["interactive"]) =>
        rp_events["headless"] = rp_events["interactive"]

====
